---- MODULE Spec2Model ----
(***************************************************************************)
(* Dependency-analysis view of viper-ide (DependencyAnalysis.ts, latest     *)
(* revision src/unnamed/part_001).                                          *)
(*                                                                         *)
(*   - loadGraphFromCSV: node records and edge records are projected onto  *)
(*     source lines, ExplicitAssertion sources are bypassed                *)
(*     (resolveRealSources), the graph handed to the webview is built;     *)
(*   - the webview script: selection, direction, depth and category        *)
(*     filter, highlightNodeAndDependencies and the result it posts;       *)
(*   - the extension side: the selection listener, the message handler,    *)
(*     highlightLines and its suppression flag.                            *)
(***************************************************************************)
EXTENDS Integers, Sequences, FiniteSets, TLC

\* ------------------------------------------------------------------ bounds
\* Longest edges.csv (data rows) drawn by the initial states.
MaxEdges == 3
\* Most messages in flight on one side of the webview boundary.
MaxPending == 1
\* Most pending reset timers of highlightLines.
MaxTimers == 2
\* Longest text of a line of the document.
MaxTextLen == 4

\* Saturation of the per-resolution visit counter.
MaxVisits == 2

\* Line numbers of the analyzed document (also the node ids of the trace).
Lines == {1, 2, 3}
NodeIds == Lines
\* The node ids a trace may use: one node per line, and one more.
TraceNodeIds == NodeIds \cup {Cardinality(NodeIds) + 1}
AnalyzedFile == "a.vpr"
ExternalFiles == {"lib.vpr", "util.vpr"}

\* 0 stands for JavaScript's undefined / null wherever a line or node is absent.
None == 0

\* The value of a file field that is undefined.
NoFile == ""

VARIABLES
    \* inputs: the data rows of nodes.csv and edges.csv, and how the graph is opened
    nodeRecords, edgeRecords, entry,
    \* loadGraphFromCSV
    pc, nodeIdx, edgeIdx, nodeIdToLine, nodeIdToFile, nodeCategories,
    externalDependenciesByFile, rawEdges, seenEdgeKeys, parentMap,
    rawIdx, callStack, visited, realSources, visitCount,
    edges, resolvedEdgeKeys, nodes,
    \* webview script
    cyNodes, cyEdges, cyCategories, cyExternalDependencyCount, cyExternalDependencies,
    cyClasses,
    showIndirect, showDependents, selectedNode, filterState,
    \* message channels between extension and webview
    toWebview, toExtension,
    \* extension
    highlightsEnabled, isUpdatingHighlights, timers, decorations,
    \* history: the last selection the user triggered, and the last result the
    \* webview posted
    lastTrigger, lastReport,
    \* the earlier pipeline of the client: the rows of edges.csv with their labels,
    \* translateEdgesToLineNumbers and its loadGraphFromCSV
    clientRows, clientPc, clientIdx, seenEdges, translatedEdges, clientEdges, clientNodes,
    \* performDependencyAnalysis: the text of the lines of the document, lines.csv, the
    \* contents loadGraphFromCSV reads from it, which files of the export directory
    \* exist, and whether the user was told that no graph data is available
    documentLines, linesCsv, lineContents,
    nodesFileExists, edgesFileExists, translatedFileExists, informed,
    \* history: the analyzed document was changed after the analysis
    documentChanged,
    \* the panel: the file showDependencyGraph was called with, the file whose graph
    \* the panel shows, the static fields currentPanel and analyzedFileUri, and the
    \* numbers of registered message handlers and listeners that are not disposed
    fileUri, panelFile, currentPanel, analyzedFileUri, messageHandlers,
    selectionChangeListener, documentChangeListener, fileChangeListener,
    \* runs of performDependencyAnalysis in flight: the position of the run for each
    \* file, the files whose run wrote lines.csv and edges_translated.csv last, and
    \* what the graph displayed last was loaded from
    runPc, linesCsvFile, translatedBy, displayed

inputVars == <<nodeRecords, edgeRecords, entry>>
loadVars == <<pc, nodeIdx, edgeIdx, nodeIdToLine, nodeIdToFile, nodeCategories,
              externalDependenciesByFile, rawEdges, seenEdgeKeys, parentMap, rawIdx, callStack, visited,
              realSources, visitCount, edges, resolvedEdgeKeys, nodes>>
graphVars == <<cyNodes, cyEdges, cyCategories, cyExternalDependencyCount,
               cyExternalDependencies>>
viewVars == <<cyClasses, showIndirect, showDependents, selectedNode, filterState>>
extVars == <<highlightsEnabled, isUpdatingHighlights, timers, decorations>>
histVars == <<lastTrigger, lastReport>>
clientVars == <<clientRows, clientPc, clientIdx, seenEdges, translatedEdges, clientEdges,
                clientNodes>>
listenerVars == <<selectionChangeListener, documentChangeListener, fileChangeListener>>
panelVars == <<fileUri, panelFile, currentPanel, analyzedFileUri, messageHandlers,
               listenerVars>>
runVars == <<runPc, linesCsvFile, translatedBy, displayed>>
analysisVars == <<runVars, documentLines, linesCsv, lineContents, nodesFileExists, edgesFileExists,
                  translatedFileExists, informed, documentChanged, panelVars>>
vars == <<inputVars, loadVars, graphVars, viewVars, toWebview, toExtension,
          extVars, histVars, clientVars, analysisVars>>

\* ------------------------------------------------------------ sequence helpers
Range(s) == {s[i] : i \in 1..Len(s)}

Includes(s, x) == \E i \in 1..Len(s) : s[i] = x

\* Mutant of UniqueConcat: the later list replaces the earlier one.
UniqueConcat_Overwrite(a, b) == b

\* Mutant of UniqueConcat: the concatenation keeps repeated elements.
UniqueConcat_KeepAll(a, b) == a \o b

\* Array.from(new Set([...a, ...b])): the elements of a, then of b, each at its first
\* occurrence (insertion order of a Set).
UniqueConcat(a, b) ==
    LET s == a \o b
        first == {i \in 1..Len(s) : \A j \in 1..(i - 1) : s[j] # s[i]}
    IN [k \in 1..Cardinality(first) |->
           s[CHOOSE i \in first : Cardinality({j \in first : j < i}) = k - 1]]

NoDuplicates(s) == \A i, j \in 1..Len(s) : s[i] = s[j] => i = j

\* ------------------------------------------------------------ getNodeCategories
\* Mutant of getNodeCategories: a postcondition counts as an explicit assertion.
getNodeCategories_PostconditionExplicit(nodeType, assumptionType) ==
    IF nodeType = "Assumption"
    THEN IF assumptionType = "Explicit" THEN <<"ExplicitAssumption">>
         ELSE <<"ImplicitAssumption">>
    ELSE IF nodeType = "Assertion"
    THEN IF assumptionType \in {"Explicit", "ImplicitPostcondition", "ExplicitPostcondition"}
         THEN <<"ExplicitAssertion">>
         ELSE <<"ImplicitAssertion">>
    ELSE IF nodeType = "Infeasible" THEN <<"Infeasible">>
    ELSE <<"Unknown">>

getNodeCategories(nodeType, assumptionType) ==
    LET a == IF nodeType = "Assumption"
             THEN IF assumptionType = "Explicit"
                  THEN <<"ExplicitAssumption">>
                  ELSE <<"ImplicitAssumption">>
             ELSE <<>>
        b == IF nodeType = "Assertion"
             THEN IF assumptionType = "Explicit"
                  THEN <<"ExplicitAssertion">>
                  ELSE IF assumptionType \in {"ImplicitPostcondition", "ExplicitPostcondition"}
                       THEN <<"ExplicitAssertionPostcondition">>
                       ELSE <<"ImplicitAssertion">>
             ELSE <<>>
        c == IF nodeType = "Infeasible" THEN <<"Infeasible">> ELSE <<>>
        categories == a \o b \o c
    IN IF Len(categories) > 0 THEN categories ELSE <<"Unknown">>

\* ------------------------------------------------------------ loadGraphFromCSV
\* One data row of nodes.csv: its node is recorded, and its category merged into
\* the line's categories when it lies in the analyzed file.
ReadNodeRecord ==
    /\ pc = "nodes"
    /\ IF ~nodesFileExists \/ nodeIdx > Len(nodeRecords)
       THEN /\ pc' = "edges"
            /\ UNCHANGED <<nodeIdx, nodeIdToLine, nodeIdToFile, nodeCategories>>
       ELSE LET r == nodeRecords[nodeIdx]
                categories == getNodeCategories(r.nodeType, r.assumptionType)
            IN /\ nodeIdToFile' = IF r.line = None THEN nodeIdToFile
                                  ELSE [nodeIdToFile EXCEPT ![r.id] = r.file]
               /\ nodeIdToLine' = IF r.line = None THEN nodeIdToLine
                                  ELSE [nodeIdToLine EXCEPT ![r.id] = r.line]
               /\ nodeCategories' =
                      IF r.line # None /\ r.file = fileUri
                      THEN [nodeCategories EXCEPT
                               ![r.line] = UniqueConcat(nodeCategories[r.line], categories)]
                      ELSE nodeCategories
               /\ nodeIdx' = nodeIdx + 1
               /\ pc' = pc
    /\ UNCHANGED <<edgeIdx, rawEdges, seenEdgeKeys, parentMap, rawIdx, callStack,
                   visited, realSources, visitCount, edges, resolvedEdgeKeys, nodes>>
    /\ UNCHANGED <<externalDependenciesByFile, analysisVars, clientVars, inputVars, graphVars, viewVars, toWebview, toExtension, extVars, histVars>>

\* Mutant of IsIntraFileEdge: the check sourceLine !== targetLine is missing.
IsIntraFileEdge_NoSelfCheck(sourceLine, sourceFile, targetLine, targetFile) ==
    /\ sourceLine # None /\ sourceFile = fileUri
    /\ targetLine # None /\ targetFile = fileUri

\* Mutant of IsIntraFileEdge: the file of the source is not looked at.
IsIntraFileEdge_AnySourceFile(sourceLine, sourceFile, targetLine, targetFile) ==
    /\ sourceLine # None
    /\ targetLine # None /\ targetFile = fileUri
    /\ sourceLine # targetLine

\* The condition under which an edge record becomes a raw intra-file edge.
IsIntraFileEdge(sourceLine, sourceFile, targetLine, targetFile) ==
    /\ sourceLine # None /\ sourceFile = fileUri
    /\ targetLine # None /\ targetFile = fileUri
    /\ sourceLine # targetLine

\* The condition under which an edge record is tracked as an external dependency:
\* target in the analyzed file, source from a different file.
IsExternalDependency(sourceFile, targetLine, targetFile) ==
    /\ targetLine # None /\ targetFile = fileUri
    /\ sourceFile # "" /\ sourceFile # fileUri

\* One data row of edges.csv.
ReadEdgeRecord ==
    /\ pc = "edges"
    /\ IF ~edgesFileExists \/ edgeIdx > Len(edgeRecords)
       THEN /\ pc' = "parents"
            /\ UNCHANGED <<edgeIdx, externalDependenciesByFile, rawEdges, seenEdgeKeys>>
       ELSE IF edgeRecords[edgeIdx].fields < 2
       THEN /\ edgeIdx' = edgeIdx + 1
            /\ pc' = pc
            /\ UNCHANGED <<externalDependenciesByFile, rawEdges, seenEdgeKeys>>
       ELSE LET r == edgeRecords[edgeIdx]
                sourceLine == nodeIdToLine[r.source]
                sourceFile == nodeIdToFile[r.source]
                targetLine == nodeIdToLine[r.target]
                targetFile == nodeIdToFile[r.target]
                edgeKey == <<sourceLine, targetLine>>
                keep == /\ IsIntraFileEdge(sourceLine, sourceFile, targetLine, targetFile)
                        /\ edgeKey \notin seenEdgeKeys
            IN /\ externalDependenciesByFile' =
                      IF IsExternalDependency(sourceFile, targetLine, targetFile)
                      THEN [externalDependenciesByFile EXCEPT
                               ![targetLine][sourceFile] =
                                   IF Includes(@, sourceLine) THEN @
                                   ELSE Append(@, sourceLine)]
                      ELSE externalDependenciesByFile
               /\ seenEdgeKeys' = IF keep THEN seenEdgeKeys \cup {edgeKey} ELSE seenEdgeKeys
               /\ rawEdges' = IF keep
                              THEN Append(rawEdges, [source |-> sourceLine, target |-> targetLine])
                              ELSE rawEdges
               /\ edgeIdx' = edgeIdx + 1
               /\ pc' = pc
    /\ UNCHANGED <<nodeIdx, nodeIdToLine, nodeIdToFile, nodeCategories, parentMap, rawIdx,
                   callStack, visited, realSources, visitCount, edges, resolvedEdgeKeys, nodes>>
    /\ UNCHANGED <<analysisVars, clientVars, inputVars, graphVars, viewVars, toWebview, toExtension, extVars, histVars>>

\* parentMap: for every target line, its raw sources in insertion order.
RECURSIVE ParentsOf(_, _)
ParentsOf(raw, line) ==
    IF raw = <<>> THEN <<>>
    ELSE LET rest == ParentsOf(Tail(raw), line)
         IN IF Head(raw).target = line
            THEN UniqueConcat(<<Head(raw).source>>, rest)
            ELSE rest

BuildParentMap ==
    /\ pc = "parents"
    /\ parentMap' = [l \in Lines |-> ParentsOf(rawEdges, l)]
    /\ rawIdx' = 1
    /\ pc' = "resolve"
    /\ UNCHANGED <<nodeIdx, edgeIdx, nodeIdToLine, nodeIdToFile, nodeCategories, rawEdges,
                   seenEdgeKeys, callStack, visited, realSources, visitCount, edges,
                   resolvedEdgeKeys, nodes>>
    /\ UNCHANGED <<externalDependenciesByFile, analysisVars, clientVars, inputVars, graphVars, viewVars, toWebview, toExtension, extVars, histVars>>

\* shouldBypass: the line carries the category ExplicitAssertion.
shouldBypass(categories) == Includes(categories, "ExplicitAssertion")

\* Mutant of AlreadyVisited: the visited set is never consulted.
AlreadyVisited_Never(line, vis) == FALSE

\* resolveRealSources, line 578: the line was already reached in this resolution.
AlreadyVisited(line, vis) == line \in vis

\* Mutant of IsRealSource: the test on the parents is inverted.
IsRealSource_ParentsInverted(line) ==
    \/ ~shouldBypass(nodeCategories[line])
    \/ Len(parentMap[line]) > 0

\* Mutant of IsRealSource: an explicit assertion without parents is not kept.
IsRealSource_NoFallback(line) == ~shouldBypass(nodeCategories[line])

\* resolveRealSources, lines 581-590: the line is returned as a real source.
IsRealSource(line) ==
    \/ ~shouldBypass(nodeCategories[line])
    \/ Len(parentMap[line]) = 0

\* One call resolveRealSources(line, visited), up to its loop over the parents:
\* stk is the stack of the callers, vis and cnt the visited set and visit counts.
ResolveCall(line, stk, vis, cnt, rs) ==
    IF AlreadyVisited(line, vis)
    THEN /\ callStack' = stk
         /\ visited' = vis
         /\ visitCount' = cnt
         /\ realSources' = rs
    ELSE /\ visited' = vis \cup {line}
         /\ visitCount' = [cnt EXCEPT ![line] = IF @ < MaxVisits THEN @ + 1 ELSE @]
         /\ IF IsRealSource(line)
            THEN /\ realSources' = Append(rs, line)
                 /\ callStack' = stk
            ELSE /\ realSources' = rs
                 /\ callStack' = Append(stk, [line |-> line, next |-> 1])

\* Line 605: resolveRealSources(edge.source, new Set()) for the next raw edge.
ResolveStart ==
    /\ pc = "resolve"
    /\ rawIdx <= Len(rawEdges)
    /\ ResolveCall(rawEdges[rawIdx].source, <<>>, {}, [l \in Lines |-> 0], <<>>)
    /\ pc' = "dfs"
    /\ UNCHANGED <<nodeIdx, edgeIdx, nodeIdToLine, nodeIdToFile, nodeCategories, rawEdges,
                   seenEdgeKeys, parentMap, rawIdx, edges, resolvedEdgeKeys, nodes>>
    /\ UNCHANGED <<externalDependenciesByFile, analysisVars, clientVars, inputVars, graphVars, viewVars, toWebview, toExtension, extVars, histVars>>

\* Lines 592-596: the innermost running call takes its next parent, or returns.
ResolveStep ==
    /\ pc = "dfs"
    /\ callStack # <<>>
    /\ LET top == callStack[Len(callStack)]
           below == SubSeq(callStack, 1, Len(callStack) - 1)
           parents == parentMap[top.line]
       IN IF top.next > Len(parents)
          THEN /\ callStack' = below
               /\ UNCHANGED <<visited, visitCount, realSources>>
          ELSE ResolveCall(parents[top.next],
                           Append(below, [top EXCEPT !.next = @ + 1]),
                           visited, visitCount, realSources)
    /\ UNCHANGED <<pc, nodeIdx, edgeIdx, nodeIdToLine, nodeIdToFile, nodeCategories, rawEdges,
                   seenEdgeKeys, parentMap, rawIdx, edges, resolvedEdgeKeys, nodes>>
    /\ UNCHANGED <<externalDependenciesByFile, analysisVars, clientVars, inputVars, graphVars, viewVars, toWebview, toExtension, extVars, histVars>>

\* Mutant of EmitOne: resolvedEdgeKeys is not consulted.
EmitOne_NoKeyCheck(acc, realSource, target) ==
    IF realSource = target THEN acc
    ELSE [edges |-> Append(acc.edges, [source |-> realSource, target |-> target]),
          keys |-> acc.keys \cup {<<realSource, target>>},
          nodes |-> UniqueConcat(acc.nodes, <<realSource, target>>)]

\* Lines 607-616 for one real source: acc is [edges, keys, nodes].
EmitOne(acc, realSource, target) ==
    IF realSource = target THEN acc
    ELSE IF <<realSource, target>> \in acc.keys THEN acc
    ELSE [edges |-> Append(acc.edges, [source |-> realSource, target |-> target]),
          keys |-> acc.keys \cup {<<realSource, target>>},
          nodes |-> UniqueConcat(acc.nodes, <<realSource, target>>)]

RECURSIVE EmitAll(_, _, _)
EmitAll(acc, rs, target) ==
    IF rs = <<>> THEN acc
    ELSE EmitAll(EmitOne(acc, Head(rs), target), Tail(rs), target)

\* The resolution of the current raw edge has returned: its resolved edges are added.
EmitEdges ==
    /\ pc = "dfs"
    /\ callStack = <<>>
    /\ LET acc == EmitAll([edges |-> edges, keys |-> resolvedEdgeKeys, nodes |-> nodes],
                          realSources, rawEdges[rawIdx].target)
       IN /\ edges' = acc.edges
          /\ resolvedEdgeKeys' = acc.keys
          /\ nodes' = acc.nodes
    /\ rawIdx' = rawIdx + 1
    /\ pc' = "resolve"
    /\ UNCHANGED <<nodeIdx, edgeIdx, nodeIdToLine, nodeIdToFile, nodeCategories, rawEdges,
                   seenEdgeKeys, parentMap, callStack, visited, realSources, visitCount>>
    /\ UNCHANGED <<externalDependenciesByFile, analysisVars, clientVars, inputVars, graphVars, viewVars, toWebview, toExtension, extVars, histVars>>

\* Lines 619-623: both endpoints of every raw edge are nodes.
\* Mutant of RawEndpoints: the endpoints of the raw edges are not added.
RawEndpoints_None(raw) == <<>>

RECURSIVE RawEndpoints(_)
RawEndpoints(raw) ==
    IF raw = <<>> THEN <<>>
    ELSE <<Head(raw).source, Head(raw).target>> \o RawEndpoints(Tail(raw))

\* nodeCategories.get(id) || ['Unknown']
\* Mutant of SortAscending: the list is left in insertion order.
SortAscending_InsertionOrder(s) == s

\* lines.sort((a, b) => a - b): the elements of s in ascending order, repeated
\* elements kept.
SortAscending(s) ==
    LET before(i) == Cardinality({j \in 1..Len(s) : s[j] < s[i] \/ (s[j] = s[i] /\ j < i)})
    IN [k \in 1..Len(s) |-> s[CHOOSE i \in 1..Len(s) : before(i) = k - 1]]

RECURSIVE SumOfLengths(_, _)
SumOfLengths(fileMap, files) ==
    IF files = {} THEN 0
    ELSE LET f == CHOOSE x \in files : TRUE
         IN Len(fileMap[f]) + SumOfLengths(fileMap, files \ {f})

\* Mutant of ExternalDepCount: the files are counted, not their lines.
ExternalDepCount_CountsFiles(fileMap) ==
    Cardinality({f \in ExternalFiles : fileMap[f] # <<>>})

\* externalDepCount: the lengths of the line lists of all files of the map.
ExternalDepCount(fileMap) == SumOfLengths(fileMap, ExternalFiles)

CategoriesOrUnknown(line) ==
    IF Len(nodeCategories[line]) > 0 THEN nodeCategories[line] ELSE <<"Unknown">>

\* "if (listener) listener.dispose(); listener = register(...)": the number of
\* registrations that are not disposed, given the number before.
Reregistered(count) == (IF count > 0 THEN count - 1 ELSE count) + 1

\* webview.html is assigned: the script of the webview starts anew, without a selected
\* node, showing direct dependencies, with every checkbox checked.
WebviewLoaded ==
    /\ cyClasses' = [l \in Lines |-> {}]
    /\ showIndirect' = FALSE
    /\ showDependents' = FALSE
    /\ selectedNode' = None
    /\ filterState' = [c \in DOMAIN filterState |-> TRUE]

\* The graph is returned and put into the webview; performDependencyAnalysis then
\* enables the highlights, the command viper.showDependencyGraph does not.
BuildGraphData ==
    /\ pc = "resolve"
    /\ rawIdx > Len(rawEdges)
    /\ nodes' = UniqueConcat(nodes, RawEndpoints(rawEdges))
    /\ cyNodes' = nodes'
    /\ cyEdges' = edges
    /\ cyCategories' = [l \in Lines |-> CategoriesOrUnknown(l)]
    /\ cyExternalDependencyCount' =
           [l \in Lines |-> IF l \in Range(nodes')
                            THEN ExternalDepCount(externalDependenciesByFile[l]) ELSE 0]
    /\ externalDependenciesByFile' =
           [l \in Lines |-> IF l \in Range(nodes')
                            THEN [f \in ExternalFiles |->
                                     SortAscending(externalDependenciesByFile[l][f])]
                            ELSE externalDependenciesByFile[l]]
    /\ cyExternalDependencies' =
           [l \in Lines |-> IF l \in Range(nodes')
                            THEN externalDependenciesByFile'[l]
                            ELSE [f \in ExternalFiles |-> <<>>]]
    /\ WebviewLoaded
    /\ panelFile' = fileUri
    /\ messageHandlers' = messageHandlers + 1
    /\ selectionChangeListener' = Reregistered(selectionChangeListener)
    /\ documentChangeListener' = Reregistered(documentChangeListener)
    /\ fileChangeListener' = Reregistered(fileChangeListener)
    /\ analyzedFileUri' = IF entry = "analysis" THEN fileUri ELSE analyzedFileUri
    /\ highlightsEnabled' = IF entry = "analysis" THEN TRUE ELSE highlightsEnabled
    /\ pc' = "done"
    /\ UNCHANGED <<nodeIdx, edgeIdx, nodeIdToLine, nodeIdToFile, nodeCategories, rawEdges,
                   seenEdgeKeys, parentMap, rawIdx, callStack, visited, realSources,
                   visitCount, edges, resolvedEdgeKeys>>
    /\ UNCHANGED <<isUpdatingHighlights, timers, decorations>>
    /\ UNCHANGED <<runVars, documentLines, linesCsv, lineContents, nodesFileExists, edgesFileExists,
                   translatedFileExists, informed, documentChanged, fileUri, currentPanel>>
    /\ UNCHANGED <<clientVars, inputVars, toWebview, toExtension, histVars>>

NextLoad ==
    \/ ReadNodeRecord
    \/ ReadEdgeRecord
    \/ BuildParentMap
    \/ ResolveStart
    \/ ResolveStep
    \/ EmitEdges
    \/ BuildGraphData

\* ------------------------------------------------------------------ webview script
\* related.nodes().difference(directRelated.nodes())
Difference(a, b) == SelectSeq(a, LAMBDA x : ~Includes(b, x))

\* cytoscape's incomers() / outgoers() of a collection of nodes, nodes only: per
\* node, the other endpoint of each of its incoming (outgoing) edges, in edge order.
RECURSIVE EdgeNeighbours(_, _, _)
EdgeNeighbours(es, n, outgoing) ==
    IF es = <<>> THEN <<>>
    ELSE LET e == Head(es)
             hit == IF outgoing THEN e.source = n /\ e.target # n
                                ELSE e.target = n /\ e.source # n
             other == IF outgoing THEN e.target ELSE e.source
         IN (IF hit THEN <<other>> ELSE <<>>) \o EdgeNeighbours(Tail(es), n, outgoing)

RECURSIVE Hop(_, _)
Hop(eles, outgoing) ==
    IF eles = <<>> THEN <<>>
    ELSE UniqueConcat(EdgeNeighbours(cyEdges, Head(eles), outgoing), Hop(Tail(eles), outgoing))

\* cytoscape's predecessors() / successors(): hops repeated until one brings no
\* element that was not collected before.
RECURSIVE AllHops(_, _, _)
AllHops(eles, sEles, outgoing) ==
    LET next == Hop(eles, outgoing)
        fresh == Difference(next, sEles)
    IN IF Len(next) = 0 \/ Len(fresh) = 0 THEN sEles
       ELSE AllHops(next, sEles \o fresh, outgoing)

Incomers(n) == Hop(<<n>>, FALSE)
Outgoers(n) == Hop(<<n>>, TRUE)
Predecessors(n) == AllHops(<<n>>, <<>>, FALSE)
Successors(n) == AllHops(<<n>>, <<>>, TRUE)

\* highlightNodeAndDependencies, lines 1303-1323.
Related(n, si, sd) ==
    IF sd THEN (IF si THEN Successors(n) ELSE Outgoers(n))
    ELSE (IF si THEN Predecessors(n) ELSE Incomers(n))

DirectRelated(n, sd) == IF sd THEN Outgoers(n) ELSE Incomers(n)

\* Mutant of IndirectRelated: the direct nodes are not taken out.
IndirectRelated_NoDifference(related, direct) == related

\* Lines 1340 and 1359-1360: related.nodes().difference(directRelated.nodes()).
IndirectRelated(related, direct) == Difference(related, direct)

DependencyClasses == {"direct", "indirect", "direct-dependent", "indirect-dependent"}

\* Lines 1301-1347: the classes of every node after the highlight classes are set.
HighlightClasses(n, si, sd) ==
    LET related == Related(n, si, sd)
        direct == DirectRelated(n, sd)
        indirectClass == IF sd THEN "indirect-dependent" ELSE "indirect"
        directClass == IF sd THEN "direct-dependent" ELSE "direct"
    IN [l \in Lines |->
          IF ~Includes(cyNodes, l) THEN {}
          ELSE (IF l = n \/ Includes(related, l) THEN {} ELSE {"dimmed"})
               \cup (IF si /\ Includes(IndirectRelated(related, direct), l)
                     THEN {indirectClass} ELSE {})
               \cup (IF Includes(direct, l) THEN {directClass} ELSE {})
               \cup (IF l = n THEN {"selected"} ELSE {})]

\* Mutant of IsVisible: the test of the checkbox state is inverted.
IsVisible_Inverted(categories, fs) ==
    \E i \in 1..Len(categories) :
        categories[i] \in DOMAIN fs /\ fs[categories[i]] = FALSE

\* applyFilters, lines 1499-1502: some category of the node is enabled.
IsVisible(categories, fs) ==
    \E i \in 1..Len(categories) :
        categories[i] \in DOMAIN fs /\ fs[categories[i]] = TRUE

\* Mutant of applyFilters: the selected node is filtered like any other node.
applyFilters_FiltersSelected(cls, fs) ==
    [l \in Lines |->
        IF ~Includes(cyNodes, l) THEN cls[l]
        ELSE IF cls[l] \cap DependencyClasses = {} THEN cls[l]
        ELSE IF IsVisible(cyCategories[l], fs) THEN cls[l] \ {"filtered"}
        ELSE cls[l] \cup {"filtered"}]

\* applyFilters on the classes cls under the filter fs.
applyFilters(cls, fs) ==
    [l \in Lines |->
        IF ~Includes(cyNodes, l) THEN cls[l]
        ELSE IF cls[l] \cap DependencyClasses = {} \/ "selected" \in cls[l] THEN cls[l]
        ELSE IF IsVisible(cyCategories[l], fs) THEN cls[l] \ {"filtered"}
        ELSE cls[l] \cup {"filtered"}]

\* Mutant of HighlightMessage: the filter also stops the traversal, an indirect line
\* is reported only if it is next to a line of the traversal that is not filtered.
HighlightMessage_FilteredTraversal(n, si, sd, cls) ==
    LET related == Related(n, si, sd)
        direct == DirectRelated(n, sd)
    IN [lineNumber |-> n,
        neighbors |-> SelectSeq(direct, LAMBDA x : "filtered" \notin cls[x]),
        indirectNeighbors |->
            IF si THEN SelectSeq(IndirectRelated(related, direct),
                                 LAMBDA x : /\ "filtered" \notin cls[x]
                                            /\ \E y \in Range(related) :
                                                  /\ "filtered" \notin cls[y]
                                                  /\ Includes(Hop(<<y>>, sd), x))
            ELSE <<>>,
        showDependents |-> sd]

\* Lines 1355-1371: the message posted to the extension.
HighlightMessage(n, si, sd, cls) ==
    LET related == Related(n, si, sd)
        direct == DirectRelated(n, sd)
    IN [lineNumber |-> n,
        neighbors |-> SelectSeq(direct, LAMBDA x : "filtered" \notin cls[x]),
        indirectNeighbors |->
            IF si THEN SelectSeq(IndirectRelated(related, direct),
                                 LAMBDA x : "filtered" \notin cls[x])
            ELSE <<>>,
        showDependents |-> sd]

\* highlightNodeAndDependencies(node, true) under the modes si, sd and the filter fs:
\* the classes it leaves and the message it posts.
highlightNodeAndDependencies(n, si, sd, fs) ==
    LET cls == applyFilters(HighlightClasses(n, si, sd), fs)
    IN [classes |-> cls, message |-> HighlightMessage(n, si, sd, cls)]

\* vscode.postMessage from the webview.
PostToExtension(msg) ==
    /\ toExtension' = Append(toExtension, msg)
    /\ lastReport' = msg

CanPost == Len(toExtension) < MaxPending

ClearMessage == [lineNumber |-> 0, neighbors |-> <<>>, indirectNeighbors |-> <<>>,
                 showDependents |-> showDependents]

\* Mutant of ClickEffect: a tap on the selected node clears the classes and posts the
\* clearing message but keeps the node as the selected one.
ClickEffect_KeepsSelection(n) ==
    IF selectedNode # None /\ selectedNode = n
    THEN [selected |-> n, classes |-> [l \in Lines |-> {}], message |-> ClearMessage]
    ELSE LET h == highlightNodeAndDependencies(n, showIndirect, showDependents, filterState)
         IN [selected |-> n, classes |-> h.classes, message |-> h.message]

\* What a tap on node n does: the selection and classes it leaves, the message it posts.
ClickEffect(n) ==
    IF selectedNode # None /\ selectedNode = n
    THEN [selected |-> None, classes |-> [l \in Lines |-> {}], message |-> ClearMessage]
    ELSE LET h == highlightNodeAndDependencies(n, showIndirect, showDependents, filterState)
         IN [selected |-> n, classes |-> h.classes, message |-> h.message]

\* cy.on('tap', 'node'): the user clicks node n of the graph.
NodeClick(n) ==
    /\ pc = "done"
    /\ currentPanel
    /\ Includes(cyNodes, n)
    /\ CanPost
    /\ LET eff == ClickEffect(n)
       IN /\ selectedNode' = eff.selected
          /\ cyClasses' = eff.classes
          /\ PostToExtension(eff.message)
          /\ lastTrigger' = eff.selected
    /\ UNCHANGED <<showIndirect, showDependents, filterState, toWebview>>
    /\ UNCHANGED <<analysisVars, clientVars, inputVars, loadVars, graphVars, extVars>>

\* Mutant of MessageEffect: the node is highlighted in direct-only mode.
MessageEffect_DirectOnly(lineNumber) ==
    IF Includes(cyNodes, lineNumber)
    THEN LET h == highlightNodeAndDependencies(lineNumber, FALSE, showDependents,
                                               filterState)
         IN [selected |-> lineNumber, classes |-> h.classes, posts |-> TRUE,
             message |-> h.message]
    ELSE [selected |-> selectedNode, classes |-> cyClasses, posts |-> FALSE,
          message |-> lastReport]

\* What the message { command: 'highlightLines', lineNumber } does in the webview: the
\* selection and classes it leaves, and the message it posts (posts = FALSE: none).
MessageEffect(lineNumber) ==
    IF Includes(cyNodes, lineNumber)
    THEN LET h == highlightNodeAndDependencies(lineNumber, showIndirect, showDependents,
                                               filterState)
         IN [selected |-> lineNumber, classes |-> h.classes, posts |-> TRUE,
             message |-> h.message]
    ELSE [selected |-> selectedNode, classes |-> cyClasses, posts |-> FALSE,
          message |-> lastReport]

\* window.addEventListener('message'): the webview takes the next message of the
\* extension.
WebviewReceive ==
    /\ pc = "done"
    /\ currentPanel
    /\ toWebview # <<>>
    /\ LET eff == MessageEffect(Head(toWebview))
       IN /\ eff.posts => CanPost
          /\ selectedNode' = eff.selected
          /\ cyClasses' = eff.classes
          /\ IF eff.posts THEN PostToExtension(eff.message)
             ELSE UNCHANGED <<toExtension, lastReport>>
    /\ toWebview' = Tail(toWebview)
    /\ UNCHANGED <<showIndirect, showDependents, filterState, lastTrigger>>
    /\ UNCHANGED <<analysisVars, clientVars, inputVars, loadVars, graphVars, extVars>>

\* The toggle handlers' else branch: removeClass('selected direct indirect dimmed').
ClearedWithoutSelection ==
    [l \in Lines |-> cyClasses[l] \ {"selected", "direct", "indirect", "dimmed"}]

\* Mutant of Rehighlight: the query is re-run under the modes of before the change.
Rehighlight_Stale(si, sd, fs, cls) ==
    IF selectedNode # None
    THEN LET h == highlightNodeAndDependencies(selectedNode, showIndirect, showDependents,
                                               filterState)
         IN /\ CanPost
            /\ cyClasses' = h.classes
            /\ PostToExtension(h.message)
    ELSE /\ cyClasses' = cls
         /\ UNCHANGED <<toExtension, lastReport>>

\* Mutant of Rehighlight: the graph is highlighted again but no result is posted.
Rehighlight_Silent(si, sd, fs, cls) ==
    /\ cyClasses' = IF selectedNode # None
                    THEN highlightNodeAndDependencies(selectedNode, si, sd, fs).classes
                    ELSE cls
    /\ UNCHANGED <<toExtension, lastReport>>

\* The modes si, sd and the filter fs were just set: the current node is highlighted
\* again when there is one; cls are the classes otherwise left.
Rehighlight(si, sd, fs, cls) ==
    IF selectedNode # None
    THEN LET h == highlightNodeAndDependencies(selectedNode, si, sd, fs)
         IN /\ CanPost
            /\ cyClasses' = h.classes
            /\ PostToExtension(h.message)
    ELSE /\ cyClasses' = cls
         /\ UNCHANGED <<toExtension, lastReport>>

\* Mutant of ToggleDirection: the click also puts the depth back to direct-only.
ToggleDirection_ResetsDepth ==
    /\ pc = "done"
    /\ currentPanel
    /\ showDependents' = ~showDependents
    /\ showIndirect' = FALSE
    /\ Rehighlight(FALSE, ~showDependents, filterState, ClearedWithoutSelection)
    /\ UNCHANGED <<selectedNode, filterState, toWebview, lastTrigger>>
    /\ UNCHANGED <<analysisVars, clientVars, inputVars, loadVars, graphVars, extVars>>

\* Click on the direction button.
ToggleDirection ==
    /\ pc = "done"
    /\ currentPanel
    /\ showDependents' = ~showDependents
    /\ Rehighlight(showIndirect, ~showDependents, filterState, ClearedWithoutSelection)
    /\ UNCHANGED <<showIndirect, selectedNode, filterState, toWebview, lastTrigger>>
    /\ UNCHANGED <<analysisVars, clientVars, inputVars, loadVars, graphVars, extVars>>

\* Click on the indirect button.
ToggleIndirect ==
    /\ pc = "done"
    /\ currentPanel
    /\ showIndirect' = ~showIndirect
    /\ Rehighlight(~showIndirect, showDependents, filterState, ClearedWithoutSelection)
    /\ UNCHANGED <<showDependents, selectedNode, filterState, toWebview, lastTrigger>>
    /\ UNCHANGED <<analysisVars, clientVars, inputVars, loadVars, graphVars, extVars>>

\* enableShowIndirect(): the depth mode after a filter change.
enableShowIndirect == TRUE

\* 'change' on the checkbox of category c: the box takes the other state.
FilterChange(c) ==
    /\ pc = "done"
    /\ currentPanel
    /\ LET fs == [filterState EXCEPT ![c] = ~filterState[c]]
       IN /\ filterState' = fs
          /\ showIndirect' = enableShowIndirect
          /\ Rehighlight(enableShowIndirect, showDependents, fs, applyFilters(cyClasses, fs))
    /\ UNCHANGED <<showDependents, selectedNode, toWebview, lastTrigger>>
    /\ UNCHANGED <<analysisVars, clientVars, inputVars, loadVars, graphVars, extVars>>

\* setAllCheckboxes(checked): the buttons Select All and Deselect All.
setAllCheckboxes(checked) ==
    /\ pc = "done"
    /\ currentPanel
    /\ LET fs == [c \in DOMAIN filterState |-> checked]
       IN /\ filterState' = fs
          /\ showIndirect' = enableShowIndirect
          /\ Rehighlight(enableShowIndirect, showDependents, fs, applyFilters(cyClasses, fs))
    /\ UNCHANGED <<showDependents, selectedNode, toWebview, lastTrigger>>
    /\ UNCHANGED <<analysisVars, clientVars, inputVars, loadVars, graphVars, extVars>>

\* ------------------------------------------------------------------ extension
\* editor.document.lineCount of the analyzed file.
LineCount == Cardinality(Lines)

\* Mutant of SelectionIgnored: isUpdatingHighlights is not looked at.
SelectionIgnored_NoFlagCheck ==
    \/ selectionChangeListener = 0
    \/ ~currentPanel \/ ~highlightsEnabled
    \/ analyzedFileUri # AnalyzedFile

\* The listener of onDidChangeTextEditorSelection returns without posting a query for
\* a cursor move in the editor of the file AnalyzedFile (a listener that is disposed is
\* not called).
SelectionIgnored ==
    \/ selectionChangeListener = 0
    \/ ~currentPanel \/ ~highlightsEnabled
    \/ isUpdatingHighlights
    \/ analyzedFileUri # AnalyzedFile

\* onDidChangeTextEditorSelection: the cursor of the editor of the file AnalyzedFile
\* moves to line l. The event is dropped while highlights are disabled or being
\* updated, or when another file is the analyzed one.
CursorMove(l) ==
    /\ pc = "done"
    /\ lastTrigger' = l
    /\ IF SelectionIgnored
       THEN UNCHANGED toWebview
       ELSE /\ Len(toWebview) < MaxPending
            /\ toWebview' = Append(toWebview, l)
    /\ UNCHANGED <<toExtension, lastReport>>
    /\ UNCHANGED <<analysisVars, clientVars, inputVars, loadVars, graphVars, viewVars, extVars>>

\* clearEditorDecorations: no decoration of any type.
NoDecorations == [selected |-> {}, direct |-> {}, indirect |-> {},
                  directDependant |-> {}, indirectDependant |-> {}]

\* Mutant of InDocument: the selected line is kept among the neighbours.
InDocument_KeepsSelected(n, lineNumber) == n >= 1 /\ n <= LineCount

\* highlightLines, lines 812-844: the decorations of the editor after the call.
InDocument(n, lineNumber) == n >= 1 /\ n <= LineCount /\ n # lineNumber

\* Mutant of HighlightedDecorations: only the decoration types of the requested
\* direction are set, those of the other direction are left as they were.
HighlightedDecorations_KeepsOtherDirection(msg) ==
    IF msg.lineNumber < 0 \/ msg.lineNumber > LineCount THEN decorations
    ELSE IF msg.lineNumber = 0 THEN NoDecorations
    ELSE LET directLines == {n \in Range(msg.neighbors) : InDocument(n, msg.lineNumber)}
             indirectLines == {n \in Range(msg.indirectNeighbors) : InDocument(n, msg.lineNumber)}
         IN [selected |-> {msg.lineNumber},
             direct |-> IF msg.showDependents THEN decorations.direct ELSE directLines,
             indirect |-> IF msg.showDependents THEN decorations.indirect ELSE indirectLines,
             directDependant |-> IF msg.showDependents THEN directLines
                                 ELSE decorations.directDependant,
             indirectDependant |-> IF msg.showDependents THEN indirectLines
                                   ELSE decorations.indirectDependant]

HighlightedDecorations(msg) ==
    IF msg.lineNumber < 0 \/ msg.lineNumber > LineCount THEN decorations
    ELSE IF msg.lineNumber = 0 THEN NoDecorations
    ELSE LET directLines == {n \in Range(msg.neighbors) : InDocument(n, msg.lineNumber)}
             indirectLines == {n \in Range(msg.indirectNeighbors) : InDocument(n, msg.lineNumber)}
         IN [selected |-> {msg.lineNumber},
             direct |-> IF msg.showDependents THEN {} ELSE directLines,
             indirect |-> IF msg.showDependents THEN {} ELSE indirectLines,
             directDependant |-> IF msg.showDependents THEN directLines ELSE {},
             indirectDependant |-> IF msg.showDependents THEN indirectLines ELSE {}]

\* highlightLines, lines 813-818: the line number is refused and the user is warned
\* (showWarningMessage).
ShowsOutOfRangeWarning(msg) == msg.lineNumber < 0 \/ msg.lineNumber > LineCount

\* highlightLines, lines 824-847: the indexes document.lineAt is called with; it
\* throws for an index outside 0..lineCount-1.
LineAtCalls(msg) ==
    IF ShowsOutOfRangeWarning(msg) \/ msg.lineNumber = 0 THEN {}
    ELSE {msg.lineNumber - 1}
         \cup {n - 1 : n \in {x \in Range(msg.neighbors) : InDocument(x, msg.lineNumber)}}
         \cup {n - 1 : n \in {x \in Range(msg.indirectNeighbors) :
                                 InDocument(x, msg.lineNumber)}}

LineAtThrows(msg) == \E i \in LineAtCalls(msg) : i < 0 \/ i >= LineCount

\* onDidReceiveMessage, case 'highlightLines': the extension takes the next result of
\* the webview and, when highlights are enabled, calls highlightLines, which sets the
\* flag and schedules its reset.
ExtReceive ==
    /\ pc = "done"
    /\ currentPanel
    /\ toExtension # <<>>
    /\ toExtension' = Tail(toExtension)
    /\ IF ~highlightsEnabled
       THEN UNCHANGED <<isUpdatingHighlights, timers, decorations>>
       ELSE /\ timers + messageHandlers <= MaxTimers
            /\ isUpdatingHighlights' = TRUE
            /\ decorations' = IF analyzedFileUri = AnalyzedFile
                              THEN HighlightedDecorations(Head(toExtension))
                              ELSE decorations
            /\ timers' = timers + messageHandlers
    /\ UNCHANGED <<highlightsEnabled, toWebview, histVars>>
    /\ UNCHANGED <<analysisVars, clientVars, inputVars, loadVars, graphVars, viewVars>>

\* documentChangeListener: the analyzed document is changed; the highlights are cleared
\* and disabled if the document is the one of the active text editor (active), and the
\* analyzed file is known, which it is after an analysis.
DocumentChange(active) ==
    /\ pc = "done"
    /\ documentChanged' = TRUE
    /\ IF active /\ currentPanel /\ documentChangeListener > 0
          /\ analyzedFileUri = AnalyzedFile
       THEN /\ decorations' = NoDecorations
            /\ highlightsEnabled' = FALSE
       ELSE UNCHANGED <<decorations, highlightsEnabled>>
    /\ UNCHANGED <<runVars, documentLines, linesCsv, lineContents, nodesFileExists, edgesFileExists,
                   translatedFileExists, informed, panelVars>>
    /\ UNCHANGED <<isUpdatingHighlights, timers, toWebview, toExtension, histVars>>
    /\ UNCHANGED <<clientVars, inputVars, loadVars, graphVars, viewVars>>

\* The setTimeout callback of highlightLines, lines 856-858.
TimerFire ==
    /\ timers > 0
    /\ timers' = timers - 1
    /\ isUpdatingHighlights' = FALSE
    /\ UNCHANGED <<highlightsEnabled, decorations, toWebview, toExtension, histVars>>
    /\ UNCHANGED <<analysisVars, clientVars, inputVars, loadVars, graphVars, viewVars>>

\* ------------------------------------------------------------------ initial states
FilterCategories == <<"ExplicitAssumption", "ImplicitAssumption", "ExplicitAssertion",
                      "ImplicitAssertion">>

NoReport == [lineNumber |-> None, neighbors |-> <<>>, indirectNeighbors |-> <<>>,
             showDependents |-> FALSE]

\* One node per line of the analyzed file, with the given (kind, subtype).
NodeRecordsOf(kinds) ==
    [i \in 1..Cardinality(NodeIds) |->
        [id |-> i, nodeType |-> kinds[i][1], assumptionType |-> kinds[i][2],
         file |-> AnalyzedFile, line |-> i]]

\* Rows of edges.csv with the three fields source, target, label.
EdgeRecordsOf(pairs) ==
    [i \in 1..Len(pairs) |-> [source |-> pairs[i][1], target |-> pairs[i][2], fields |-> 3]]

\* The state before the earlier pipeline translates the given rows of edges.csv.
ClientInit(rows) ==
    /\ clientRows = rows
    /\ clientPc = "translate"
    /\ clientIdx = 1
    /\ seenEdges = {}
    /\ translatedEdges = <<>>
    /\ clientEdges = <<>>
    /\ clientNodes = {}

\* The state before loadGraphFromCSV reads the given rows of nodes.csv and edges.csv,
\* with the webview and the extension as they are constructed.
LoaderInitAt(start, records, rows, how) ==
    /\ nodeRecords = records
    /\ edgeRecords = rows
    /\ entry = how
    /\ pc = start
    /\ nodeIdx = 1
    /\ edgeIdx = 1
    /\ nodeIdToLine = [n \in TraceNodeIds |-> None]
    /\ nodeIdToFile = [n \in TraceNodeIds |-> ""]
    /\ nodeCategories = [l \in Lines |-> <<>>]
    /\ externalDependenciesByFile = [l \in Lines |-> [f \in ExternalFiles |-> <<>>]]
    /\ rawEdges = <<>>
    /\ seenEdgeKeys = {}
    /\ parentMap = [l \in Lines |-> <<>>]
    /\ rawIdx = 1
    /\ callStack = <<>>
    /\ visited = {}
    /\ realSources = <<>>
    /\ visitCount = [l \in Lines |-> 0]
    /\ edges = <<>>
    /\ resolvedEdgeKeys = {}
    /\ nodes = <<>>
    /\ cyNodes = <<>>
    /\ cyEdges = <<>>
    /\ cyCategories = [l \in Lines |-> <<>>]
    /\ cyExternalDependencyCount = [l \in Lines |-> 0]
    /\ cyExternalDependencies = [l \in Lines |-> [f \in ExternalFiles |-> <<>>]]
    /\ cyClasses = [l \in Lines |-> {}]
    /\ showIndirect = FALSE
    /\ showDependents = FALSE
    /\ selectedNode = None
    /\ filterState = [c \in Range(FilterCategories) |-> TRUE]
    /\ toWebview = <<>>
    /\ toExtension = <<>>
    /\ highlightsEnabled = FALSE
    /\ isUpdatingHighlights = FALSE
    /\ timers = 0
    /\ decorations = NoDecorations
    /\ lastTrigger = None
    /\ lastReport = NoReport
    /\ fileUri = AnalyzedFile
    /\ panelFile = NoFile
    /\ currentPanel = (start = "nodes")
    /\ analyzedFileUri = NoFile
    /\ messageHandlers = 0
    /\ selectionChangeListener = 0
    /\ documentChangeListener = 0
    /\ fileChangeListener = 0

LoaderInit(records, pairs, how) == LoaderInitAt("nodes", records, EdgeRecordsOf(pairs), how)

\* The document and the export directory before performDependencyAnalysis.
AnalysisInit(texts, nodesFile, edgesFile, translatedFile) ==
    /\ documentLines = texts
    /\ linesCsv = <<>>
    /\ lineContents = [l \in Lines |-> <<>>]
    /\ nodesFileExists = nodesFile
    /\ edgesFileExists = edgesFile
    /\ translatedFileExists = translatedFile
    /\ informed = FALSE
    /\ documentChanged = FALSE
    /\ runPc = [f \in {AnalyzedFile} \cup ExternalFiles |-> "idle"]
    /\ linesCsvFile = NoFile
    /\ translatedBy = NoFile
    /\ displayed = [graph |-> NoFile, lines |-> NoFile, translated |-> NoFile]

InitWithRecords(records, pairs, how) ==
    /\ LoaderInit(records, pairs, how)
    /\ ClientInit(<<>>)
    /\ AnalysisInit(<<>>, TRUE, TRUE, TRUE)

InitWith(kinds, pairs, how) == InitWithRecords(NodeRecordsOf(kinds), pairs, how)

\* Traces for the loader: every line is an explicit assertion or an implicit
\* assumption, and edges.csv is any sequence of at most MaxEdges rows over the nodes,
\* self-references and repeated rows included.
LoadKinds == {<<"Assertion", "Explicit">>, <<"Assumption", "Implicit">>}

AllPairs == NodeIds \X NodeIds

InitLoad ==
    \E kinds \in [NodeIds -> LoadKinds] :
        \E n \in 0..MaxEdges :
            \E pairs \in [1..n -> AllPairs] :
                InitWith(kinds, pairs, "analysis")

\* Traces for the resolution alone: edges.csv has no repeated row and no row from a
\* node to itself (both only matter while the rows are read).
ProperPairs == {p \in AllPairs : p[1] # p[2]}

InitResolve ==
    \E kinds \in [NodeIds -> LoadKinds] :
        \E n \in 0..MaxEdges :
            \E pairs \in [1..n -> ProperPairs] :
                /\ \A i, j \in 1..n : pairs[i] = pairs[j] => i = j
                /\ InitWith(kinds, pairs, "analysis")

SpecLoad == InitLoad /\ [][NextLoad]_vars

\* Termination is checked under weak fairness of the loader: loadGraphFromCSV is a
\* synchronous call that runs to completion.
SpecResolve == InitResolve /\ [][NextLoad]_vars /\ WF_vars(NextLoad)

\* Traces for the webview and the session: line 1 is an explicit assumption, line 2 an
\* implicit assertion, line 3 an explicit assertion (bypassed as a source when it has a
\* parent).
ViewKinds == <<<<"Assumption", "Explicit">>, <<"Assertion", "Implicit">>,
               <<"Assertion", "Explicit">>>>

PairBefore(p, q) == p[1] < q[1] \/ (p[1] = q[1] /\ p[2] < q[2])

\* edges.csv as a set of at most MaxEdges edges between different lines, its rows in
\* increasing order.
EdgeSets ==
    UNION {{pairs \in [1..n -> ProperPairs] :
               \A i, j \in 1..n : i < j => PairBefore(pairs[i], pairs[j])}
           : n \in 0..MaxEdges}

\* The graph is opened by the command viper.showDependencyGraph, without an analysis
\* run: the webview works, and the extension ignores the results it posts.
InitView == \E pairs \in EdgeSets : InitWith(ViewKinds, pairs, "command")

\* The checkboxes the user changes one by one.
ToggledCategories == {"ExplicitAssumption", "ImplicitAssertion"}

NextView ==
    \/ NextLoad
    \/ \E n \in Lines : NodeClick(n)
    \/ ToggleDirection
    \/ ToggleIndirect
    \/ \E c \in ToggledCategories : FilterChange(c)
    \/ \E checked \in BOOLEAN : setAllCheckboxes(checked)
    \/ ExtReceive

SpecView == InitView /\ [][NextView]_vars

\* The rows of edges.csv of the session traces: the first n of them, n <= MaxEdges.
SessionRows == <<<<1, 2>>, <<2, 3>>, <<3, 1>>, <<1, 3>>, <<2, 1>>, <<3, 2>>>>

\* The graph is opened by performDependencyAnalysis, which enables the highlights.
InitSession ==
    \E n \in 1..MaxEdges : InitWith(ViewKinds, SubSeq(SessionRows, 1, n), "analysis")

NextSession ==
    \/ NextLoad
    \/ \E n \in Lines : NodeClick(n)
    \/ \E l \in 1..LineCount : CursorMove(l)
    \/ WebviewReceive
    \/ ToggleDirection
    \/ ToggleIndirect
    \/ ExtReceive
    \/ TimerFire

SpecSession == InitSession /\ [][NextSession]_vars

\* Traces for the category filter: a trace whose lines are an explicit assumption, a
\* postcondition assertion and an infeasible node (no explicit assertion, nothing is
\* bypassed), and one with an implicit assumption, an implicit assertion and an
\* explicit assertion.
FilterKinds == {<<<<"Assumption", "Explicit">>, <<"Assertion", "ExplicitPostcondition">>,
                  <<"Infeasible", "Implicit">>>>,
                <<<<"Assumption", "Implicit">>, <<"Assertion", "Implicit">>,
                  <<"Assertion", "Explicit">>>>}

\* The rows edges.csv is drawn from: any of them, in this order.
FilterRows == <<<<3, 1>>, <<2, 1>>, <<1, 2>>, <<1, 3>>, <<2, 3>>>>

RECURSIVE RowsOf(_, _)
RowsOf(rows, chosen) ==
    IF rows = <<>> THEN <<>>
    ELSE RowsOf(SubSeq(rows, 1, Len(rows) - 1), chosen)
         \o (IF Len(rows) \in chosen THEN <<rows[Len(rows)]>> ELSE <<>>)

InitFilter ==
    \E kinds \in FilterKinds :
        \E chosen \in SUBSET (1..Len(FilterRows)) :
            InitWith(kinds, RowsOf(FilterRows, chosen), "command")

\* The checkboxes the user changes one by one in these traces.
FilterToggled == {"ExplicitAssumption", "ImplicitAssumption"}

NextFilter ==
    \/ NextLoad
    \/ \E n \in Lines : NodeClick(n)
    \/ ToggleDirection
    \/ ToggleIndirect
    \/ \E c \in FilterToggled : FilterChange(c)
    \/ \E checked \in BOOLEAN : setAllCheckboxes(checked)
    \/ ExtReceive

SpecFilter == InitFilter /\ [][NextFilter]_vars

\* Calls of highlightLines with arguments of any kind: the messages that may arrive
\* from the webview, with line numbers from below to above the range of the document.
HighlightCalls ==
    [lineNumber : (0 - 1)..(LineCount + 1),
     neighbors : {<<>>, <<2, LineCount + 1>>},
     indirectNeighbors : {<<3>>},
     showDependents : BOOLEAN]

\* A message { command: 'highlightLines', ... } arrives at the extension.
MessageArrives(msg) ==
    /\ pc = "done"
    /\ currentPanel
    /\ CanPost
    /\ PostToExtension(msg)
    /\ UNCHANGED <<toWebview, lastTrigger>>
    /\ UNCHANGED <<analysisVars, clientVars, inputVars, loadVars, graphVars, viewVars, extVars>>

InitHighlight == InitWith(ViewKinds, SubSeq(SessionRows, 1, 3), "analysis")

NextHighlight ==
    \/ NextLoad
    \/ \E msg \in HighlightCalls : MessageArrives(msg)
    \/ ExtReceive
    \/ TimerFire

SpecHighlight == InitHighlight /\ [][NextHighlight]_vars

\* Traces over several files: node 1 is an explicit assertion on line 1 of the analyzed
\* file; node 2 is on its own line, on the line of node 1, or in another file; node 3 is
\* on its own line, in another file, or has a position that does not name a line.
FileKinds == <<<<"Assertion", "Explicit">>, <<"Assumption", "Implicit">>,
               <<"Assumption", "Implicit">>>>

NodePositions ==
    {<<<<AnalyzedFile, 1>>, q[1], q[2]>> :
        q \in {<<AnalyzedFile, 2>>, <<AnalyzedFile, 1>>, <<"lib.vpr", 2>>}
              \X {<<AnalyzedFile, 3>>, <<"lib.vpr", 1>>, <<"", None>>}}

NodeRecordsAt(kinds, positions) ==
    [i \in 1..Len(positions) |->
        [id |-> i, nodeType |-> kinds[i][1], assumptionType |-> kinds[i][2],
         file |-> positions[i][1], line |-> positions[i][2]]]

InitFiles ==
    \E positions \in NodePositions :
        \E n \in 0..MaxEdges :
            \E pairs \in [1..n -> AllPairs] :
                InitWithRecords(NodeRecordsAt(FileKinds, positions), pairs, "analysis")

SpecFiles == InitFiles /\ [][NextLoad]_vars

\* Traces with dependencies on other files: nodes 1 and 2 are on lines 1 and 2 of the
\* analyzed file (node 1 an explicit assertion), nodes 3 and 4 are in another file or
\* on line 3; edges.csv is a sequence of at most MaxEdges of the rows below, repeated
\* rows included.
ExternalKinds == FileKinds \o <<<<"Assumption", "Explicit">>>>

ExternalPositions ==
    {<<<<AnalyzedFile, 1>>, <<AnalyzedFile, 2>>, q[1], q[2]>> :
        q \in {<<"lib.vpr", 2>>, <<"lib.vpr", 1>>, <<"util.vpr", 1>>}
              \X {<<"lib.vpr", 1>>, <<"lib.vpr", 3>>, <<AnalyzedFile, 3>>}}

ExternalRows == {<<1, 2>>, <<2, 1>>, <<3, 1>>, <<4, 1>>, <<3, 2>>, <<4, 2>>}

InitExternal ==
    \E positions \in ExternalPositions :
        \E n \in 0..MaxEdges :
            \E pairs \in [1..n -> ExternalRows] :
                InitWithRecords(NodeRecordsAt(ExternalKinds, positions), pairs, "analysis")

SpecExternal == InitExternal /\ [][NextLoad]_vars

\* Traces for the categories: nodes.csv has three rows of any kind and subtype; the
\* first is on line 1 of the analyzed file, the second on line 1 or 2 or in another
\* file, the third, of one of four kinds, on line 1 or in another file. Only the rows
\* of nodes.csv are read.
NodeTypes == {"Assumption", "Assertion", "Infeasible", "Label"}
AssumptionTypes == {"Explicit", "Implicit", "Internal", "ImplicitPostcondition",
                    "ExplicitPostcondition"}
AllKinds == NodeTypes \X AssumptionTypes
ThirdKinds == {<<"Assumption", "Explicit">>, <<"Assumption", "Internal">>,
               <<"Assertion", "ExplicitPostcondition">>, <<"Label", "Implicit">>}

InitCategories ==
    \E k1 \in AllKinds : \E k2 \in AllKinds : \E k3 \in ThirdKinds :
        \E p2 \in {<<AnalyzedFile, 1>>, <<AnalyzedFile, 2>>, <<"lib.vpr", 1>>} :
            \E p3 \in {<<AnalyzedFile, 1>>, <<"lib.vpr", 1>>} :
                InitWithRecords(NodeRecordsAt(<<k1, k2, k3>>, <<<<AnalyzedFile, 1>>, p2, p3>>),
                                <<>>, "analysis")

SpecCategories == InitCategories /\ [][ReadNodeRecord]_vars

\* ------------------------------------------------------------ the earlier pipeline
\* translateEdgesToLineNumbers, nodeToLine: the line the position of a node names,
\* whatever its file.
nodeToLine(id) ==
    LET rows == {i \in 1..Len(nodeRecords) : nodeRecords[i].id = id /\ nodeRecords[i].line # None}
    IN IF rows = {} THEN None
       ELSE nodeRecords[CHOOSE i \in rows : \A j \in rows : j <= i].line

\* translateEdgesToLineNumbers: one data row of edges.csv; edges_translated.csv is
\* written after the last row.
TranslateEdge ==
    /\ clientPc = "translate"
    /\ IF clientIdx > Len(clientRows)
       THEN /\ clientPc' = "load"
            /\ clientIdx' = 1
            /\ UNCHANGED <<seenEdges, translatedEdges>>
       ELSE IF clientRows[clientIdx].fields < 3
       THEN /\ clientIdx' = clientIdx + 1
            /\ clientPc' = clientPc
            /\ UNCHANGED <<seenEdges, translatedEdges>>
       ELSE LET r == clientRows[clientIdx]
                sourceLine == nodeToLine(r.source)
                targetLine == nodeToLine(r.target)
                edgeKey == <<sourceLine, targetLine, r.label>>
                keep == /\ sourceLine # None /\ targetLine # None /\ sourceLine # targetLine
                        /\ edgeKey \notin seenEdges
            IN /\ seenEdges' = IF keep THEN seenEdges \cup {edgeKey} ELSE seenEdges
               /\ translatedEdges' = IF keep THEN Append(translatedEdges, edgeKey)
                                     ELSE translatedEdges
               /\ clientIdx' = clientIdx + 1
               /\ clientPc' = clientPc
    /\ UNCHANGED <<clientRows, clientEdges, clientNodes>>
    /\ UNCHANGED <<inputVars, loadVars, graphVars, viewVars, toWebview, toExtension,
                   extVars, histVars, analysisVars>>

\* loadGraphFromCSV of the earlier pipeline: one row of edges_translated.csv; the first
\* two columns are parsed, the label is not read.
LoadTranslatedEdge ==
    /\ clientPc = "load"
    /\ IF clientIdx > Len(translatedEdges)
       THEN /\ clientPc' = "done"
            /\ UNCHANGED <<clientIdx, clientEdges, clientNodes>>
       ELSE LET source == translatedEdges[clientIdx][1]
                target == translatedEdges[clientIdx][2]
            IN /\ clientNodes' = clientNodes \cup {source, target}
               /\ clientEdges' = Append(clientEdges, [source |-> source, target |-> target])
               /\ clientIdx' = clientIdx + 1
               /\ clientPc' = clientPc
    /\ UNCHANGED <<clientRows, seenEdges, translatedEdges>>
    /\ UNCHANGED <<inputVars, loadVars, graphVars, viewVars, toWebview, toExtension,
                   extVars, histVars, analysisVars>>

\* Traces for the earlier pipeline: the nodes are on a line each, or node 2 shares the
\* line of node 1 and node 3 names no line; edges.csv is any sequence of at most
\* MaxEdges rows with one of two labels.
EdgeLabels == {"Explicit", "Implicit"}

ClientPositions ==
    {<<<<AnalyzedFile, 1>>, <<AnalyzedFile, 2>>, <<AnalyzedFile, 3>>>>,
     <<<<AnalyzedFile, 1>>, <<AnalyzedFile, 1>>, <<"", None>>>>}

LabelledRows == [source : NodeIds, target : NodeIds, label : EdgeLabels, fields : {3}]

InitClient ==
    \E positions \in ClientPositions :
        \E n \in 0..MaxEdges :
            \E rows \in [1..n -> LabelledRows] :
                /\ LoaderInit(NodeRecordsAt(FileKinds, positions), <<>>, "command")
                /\ ClientInit(rows)
                /\ AnalysisInit(<<>>, TRUE, TRUE, TRUE)

NextClient == TranslateEdge \/ LoadTranslatedEdge

SpecClient == InitClient /\ [][NextClient]_vars

\* ------------------------------------------------------------ performDependencyAnalysis
\* Texts are sequences of characters; Quote is the double-quote character.
Quote == "\""
Space == " "
Digits == <<"1", "2", "3", "4", "5", "6", "7", "8", "9">>

\* String.prototype.trim, for the white space of the texts.
RECURSIVE TrimStart(_)
TrimStart(s) == IF s # <<>> /\ Head(s) = Space THEN TrimStart(Tail(s)) ELSE s

RECURSIVE TrimEnd(_)
TrimEnd(s) ==
    IF s # <<>> /\ s[Len(s)] = Space THEN TrimEnd(SubSeq(s, 1, Len(s) - 1)) ELSE s

Trim(s) == TrimEnd(TrimStart(s))

\* replace(/"/g, '""').
RECURSIVE EscapeQuotes(_)
EscapeQuotes(s) ==
    IF s = <<>> THEN <<>>
    ELSE (IF Head(s) = Quote THEN <<Quote, Quote>> ELSE <<Head(s)>>) \o EscapeQuotes(Tail(s))

\* Mutant of UnescapeQuotes: the content is taken as it is in the record.
UnescapeQuotes_Verbatim(s) == s

\* replace(/""/g, '"'): the pairs of quotes found from left to right become one quote.
RECURSIVE UnescapeQuotes(_)
UnescapeQuotes(s) ==
    IF s = <<>> THEN <<>>
    ELSE IF Len(s) >= 2 /\ s[1] = Quote /\ s[2] = Quote
         THEN <<Quote>> \o UnescapeQuotes(SubSeq(s, 3, Len(s)))
         ELSE <<Head(s)>> \o UnescapeQuotes(Tail(s))

\* `${index + 1},"${escapedLine}"`, for the line numbers of one digit.
EncodeLine(n, text) == <<Digits[n], ",", Quote>> \o EscapeQuotes(Trim(text)) \o <<Quote>>

\* line.match(/^(\d+),"(.*)"/): the digits at the start of the record, a comma, a
\* quote, and the longest text that is followed by a quote. No match gives ok = FALSE.
MatchLine(rec) ==
    LET isDigit(c) == \E d \in 1..Len(Digits) : Digits[d] = c
        digits == CHOOSE d \in 0..Len(rec) :
                     /\ \A i \in 1..d : isDigit(rec[i])
                     /\ d < Len(rec) => ~isDigit(rec[d + 1])
        closing == {k \in (digits + 3)..Len(rec) : rec[k] = Quote}
        ok == /\ digits >= 1
              /\ Len(rec) >= digits + 2
              /\ rec[digits + 1] = "," /\ rec[digits + 2] = Quote
              /\ closing # {}
        last == CHOOSE k \in closing : \A j \in closing : j <= k
    IN [ok |-> ok,
        number |-> IF ok THEN SubSeq(rec, 1, digits) ELSE <<>>,
        text |-> IF ok THEN SubSeq(rec, digits + 3, last - 1) ELSE <<>>]

\* parseInt of a number of one digit (0 for anything else, which no record has).
ParseLineNumber(number) ==
    IF Len(number) = 1 /\ \E d \in 1..Len(Digits) : Digits[d] = number[1]
    THEN CHOOSE d \in 1..Len(Digits) : Digits[d] = number[1]
    ELSE 0

\* lineContents after the records of lines.csv are read: the content of the last
\* matching record of each line number.
ReadLineContents(records) ==
    [l \in Lines |->
        LET hits == {i \in 1..Len(records) :
                        /\ MatchLine(records[i]).ok
                        /\ ParseLineNumber(MatchLine(records[i]).number) = l}
        IN IF hits = {} THEN <<>>
           ELSE UnescapeQuotes(MatchLine(records[CHOOSE i \in hits : \A j \in hits : j <= i]).text)]

\* The variables of the loader other than its position.
loadData == <<nodeIdx, edgeIdx, nodeIdToLine, nodeIdToFile, nodeCategories,
              externalDependenciesByFile, rawEdges, seenEdgeKeys, parentMap, rawIdx,
              callStack, visited, realSources, visitCount, edges, resolvedEdgeKeys, nodes>>

\* exportLinesToCSV: lines.csv gets one record per line of the document.
exportLinesToCSV ==
    /\ pc = "export"
    /\ linesCsv' = [i \in 1..Len(documentLines) |-> EncodeLine(i, documentLines[i])]
    /\ pc' = "translate"
    /\ UNCHANGED <<runVars, documentLines, lineContents, nodesFileExists, edgesFileExists,
                   translatedFileExists, informed, documentChanged, panelVars>>
    /\ UNCHANGED <<inputVars, loadData, graphVars, viewVars, toWebview, toExtension,
                   extVars, histVars, clientVars>>

\* translateEdgesToLineNumbers: nothing is done when nodes.csv or edges.csv cannot be
\* read; otherwise one data row of edges.csv is translated, and after the last row
\* edges_translated.csv is written.
translateEdgesToLineNumbers ==
    /\ pc = "translate"
    /\ IF ~nodesFileExists \/ ~edgesFileExists
       THEN /\ pc' = "show"
            /\ UNCHANGED <<clientIdx, seenEdges, translatedEdges, translatedFileExists>>
       ELSE IF clientIdx > Len(clientRows)
       THEN /\ translatedFileExists' = TRUE
            /\ pc' = "show"
            /\ UNCHANGED <<clientIdx, seenEdges, translatedEdges>>
       ELSE IF clientRows[clientIdx].fields < 3
       THEN /\ clientIdx' = clientIdx + 1
            /\ pc' = pc
            /\ UNCHANGED <<seenEdges, translatedEdges, translatedFileExists>>
       ELSE LET r == clientRows[clientIdx]
                sourceLine == nodeToLine(r.source)
                targetLine == nodeToLine(r.target)
                edgeKey == <<sourceLine, targetLine, r.label>>
                keep == /\ sourceLine # None /\ targetLine # None /\ sourceLine # targetLine
                        /\ edgeKey \notin seenEdges
            IN /\ seenEdges' = IF keep THEN seenEdges \cup {edgeKey} ELSE seenEdges
               /\ translatedEdges' = IF keep THEN Append(translatedEdges, edgeKey)
                                     ELSE translatedEdges
               /\ clientIdx' = clientIdx + 1
               /\ pc' = pc
               /\ UNCHANGED translatedFileExists
    /\ UNCHANGED <<clientRows, clientPc, clientEdges, clientNodes>>
    /\ UNCHANGED <<runVars, documentLines, linesCsv, lineContents, nodesFileExists, edgesFileExists,
                   informed, documentChanged, panelVars>>
    /\ UNCHANGED <<inputVars, loadData, graphVars, viewVars, toWebview, toExtension,
                   extVars, histVars>>

\* showDependencyGraph up to the call of loadGraphFromCSV: without edges_translated.csv
\* the user is told that no graph data is available and the function returns, and
\* performDependencyAnalysis goes on to enable the highlights.
showDependencyGraph ==
    /\ pc = "show"
    /\ IF ~translatedFileExists
       THEN /\ informed' = TRUE
            /\ highlightsEnabled' = IF entry = "analysis" THEN TRUE ELSE highlightsEnabled
            /\ analyzedFileUri' = IF entry = "analysis" THEN fileUri ELSE analyzedFileUri
            /\ pc' = "done"
            /\ UNCHANGED currentPanel
       ELSE /\ pc' = "lines"
            /\ currentPanel' = TRUE
            /\ UNCHANGED <<informed, highlightsEnabled, analyzedFileUri>>
    /\ UNCHANGED <<runVars, documentLines, linesCsv, lineContents, nodesFileExists, edgesFileExists,
                   translatedFileExists, documentChanged>>
    /\ UNCHANGED <<fileUri, panelFile, messageHandlers, listenerVars>>
    /\ UNCHANGED <<isUpdatingHighlights, timers, decorations>>
    /\ UNCHANGED <<inputVars, loadData, graphVars, viewVars, toWebview, toExtension,
                   histVars, clientVars>>

\* loadGraphFromCSV, lines 439-455: the contents of the lines are read from lines.csv.
ReadLinesCsv ==
    /\ pc = "lines"
    /\ lineContents' = ReadLineContents(linesCsv)
    /\ pc' = "nodes"
    /\ UNCHANGED <<runVars, documentLines, linesCsv, nodesFileExists, edgesFileExists,
                   translatedFileExists, informed, documentChanged, panelVars>>
    /\ UNCHANGED <<inputVars, loadData, graphVars, viewVars, toWebview, toExtension,
                   extVars, histVars, clientVars>>

NextAnalysis ==
    \/ exportLinesToCSV
    \/ translateEdgesToLineNumbers
    \/ showDependencyGraph
    \/ ReadLinesCsv

\* Traces for the line contents: the first line of the document is any text of at
\* most MaxTextLen characters out of a letter, a space and the quote; the trace files
\* exist and are empty.
Characters == {"a", Space, Quote}

Texts == UNION {[1..n -> Characters] : n \in 0..MaxTextLen}

InitLines ==
    \E text \in Texts :
        /\ LoaderInitAt("export", NodeRecordsOf(FileKinds), <<>>, "analysis")
        /\ ClientInit(<<>>)
        /\ AnalysisInit(<<text, <<"a">>, <<>>>>, TRUE, TRUE, FALSE)

SpecLines == InitLines /\ [][NextAnalysis]_vars

\* Traces for the analysis: nodes.csv, edges.csv and an edges_translated.csv of an
\* earlier analysis exist or not; nodes.csv has one node per line, node 1 an explicit
\* assertion; edges.csv is a sequence of at most MaxEdges rows that have one, two or
\* three fields. A file that does not exist has no rows.
AnalysisPairs == {<<2, 1>>, <<1, 3>>, <<3, 2>>}

AnalysisRows ==
    [source : {1}, target : {1}, label : {""}, fields : {1}]
    \cup {[source |-> p[1], target |-> p[2], label |-> "", fields |-> 2] : p \in AnalysisPairs}
    \cup {[source |-> p[1], target |-> p[2], label |-> "Explicit", fields |-> 3] :
             p \in AnalysisPairs}

InitAnalysis ==
    \E nodesFile \in BOOLEAN : \E edgesFile \in BOOLEAN : \E translatedFile \in BOOLEAN :
        \E n \in 0..(IF edgesFile THEN MaxEdges ELSE 0) :
            \E rows \in [1..n -> AnalysisRows] :
                /\ LoaderInitAt("export",
                                IF nodesFile THEN NodeRecordsOf(FileKinds) ELSE <<>>,
                                [i \in 1..n |-> [source |-> rows[i].source,
                                                 target |-> rows[i].target,
                                                 fields |-> rows[i].fields]],
                                "analysis")
                /\ ClientInit(rows)
                /\ AnalysisInit(<<<<"a">>, <<>>, <<>>>>, nodesFile, edgesFile, translatedFile)

SpecAnalysis == InitAnalysis /\ [][NextAnalysis \/ NextLoad]_vars

\* Traces with changes of the analyzed document: the graph of three dependencies is
\* opened by an analysis; the user clicks vertices, moves the cursor, and the document
\* is changed while its editor is the active one or not.
InitEdit == InitWith(ViewKinds, SubSeq(SessionRows, 1, 3), "analysis")

NextEdit ==
    \/ NextLoad
    \/ \E n \in Lines : NodeClick(n)
    \/ \E l \in 1..LineCount : CursorMove(l)
    \/ WebviewReceive
    \/ ExtReceive
    \/ TimerFire
    \/ \E active \in BOOLEAN : DocumentChange(active)

SpecEdit == InitEdit /\ [][NextEdit]_vars

\* Traces of selecting and deselecting vertices after an analysis of a cyclic graph:
\* clicks on vertices, changes of direction, depth and filter, and the extension
\* applying the results.
InitClear == InitWith(ViewKinds, SubSeq(SessionRows, 1, 3), "analysis")

NextClear ==
    \/ NextLoad
    \/ \E n \in Lines : NodeClick(n)
    \/ ToggleDirection
    \/ ToggleIndirect
    \/ FilterChange("ExplicitAssumption")
    \/ ExtReceive
    \/ TimerFire

SpecClear == InitClear /\ [][NextClear]_vars

\* ------------------------------------------------------------ the panel's life
\* dispose() of a listener that is set.
Disposed(count) == IF count > 0 THEN count - 1 ELSE count

\* Mutant of onDidDispose: highlightsEnabled and analyzedFileUri are left as they are.
onDidDispose_KeepsSession ==
    /\ decorations' = IF analyzedFileUri = AnalyzedFile THEN NoDecorations ELSE decorations
    /\ currentPanel' = FALSE
    /\ selectionChangeListener' = Disposed(selectionChangeListener)
    /\ documentChangeListener' = Disposed(documentChangeListener)
    /\ fileChangeListener' = Disposed(fileChangeListener)
    /\ messageHandlers' = 0
    /\ panelFile' = NoFile
    /\ toWebview' = <<>>
    /\ toExtension' = <<>>
    /\ UNCHANGED <<runVars, documentLines, linesCsv, lineContents, nodesFileExists, edgesFileExists,
                   translatedFileExists, informed, documentChanged, fileUri>>
    /\ UNCHANGED <<highlightsEnabled, analyzedFileUri>>
    /\ UNCHANGED <<isUpdatingHighlights, timers, histVars>>
    /\ UNCHANGED <<clientVars, inputVars, loadVars, graphVars, viewVars>>

\* currentPanel.onDidDispose: the highlights of the analyzed file's editor are cleared,
\* the static fields are reset and the three listeners are disposed; the webview is
\* gone with its message handlers and the messages under way.
onDidDispose ==
    /\ decorations' = IF analyzedFileUri = AnalyzedFile THEN NoDecorations ELSE decorations
    /\ currentPanel' = FALSE
    /\ highlightsEnabled' = FALSE
    /\ analyzedFileUri' = NoFile
    /\ selectionChangeListener' = Disposed(selectionChangeListener)
    /\ documentChangeListener' = Disposed(documentChangeListener)
    /\ fileChangeListener' = Disposed(fileChangeListener)
    /\ messageHandlers' = 0
    /\ panelFile' = NoFile
    /\ toWebview' = <<>>
    /\ toExtension' = <<>>
    /\ UNCHANGED <<runVars, documentLines, linesCsv, lineContents, nodesFileExists, edgesFileExists,
                   translatedFileExists, informed, documentChanged, fileUri>>
    /\ UNCHANGED <<isUpdatingHighlights, timers, histVars>>
    /\ UNCHANGED <<clientVars, inputVars, loadVars, graphVars, viewVars>>

\* No call of showDependencyGraph is running: the last one has returned, or
\* performDependencyAnalysis is at one of its awaits before the call.
BetweenCalls == pc \in {"done", "export", "translate", "show"}

\* The user closes the panel.
ClosePanel ==
    /\ BetweenCalls
    /\ currentPanel
    /\ onDidDispose

\* toggleDependencyAnalysis switching the analysis off: the panel is disposed when
\* there is one.
toggleDependencyAnalysis ==
    /\ BetweenCalls
    /\ currentPanel
    /\ onDidDispose

\* loadGraphFromCSV starts with empty local tables.
LoaderReset ==
    /\ nodeIdx' = 1
    /\ edgeIdx' = 1
    /\ nodeIdToLine' = [n \in TraceNodeIds |-> None]
    /\ nodeIdToFile' = [n \in TraceNodeIds |-> ""]
    /\ nodeCategories' = [l \in Lines |-> <<>>]
    /\ externalDependenciesByFile' = [l \in Lines |-> [f \in ExternalFiles |-> <<>>]]
    /\ rawEdges' = <<>>
    /\ seenEdgeKeys' = {}
    /\ parentMap' = [l \in Lines |-> <<>>]
    /\ rawIdx' = 1
    /\ callStack' = <<>>
    /\ visited' = {}
    /\ realSources' = <<>>
    /\ visitCount' = [l \in Lines |-> 0]
    /\ edges' = <<>>
    /\ resolvedEdgeKeys' = {}
    /\ nodes' = <<>>

\* The command viper.showDependencyGraph while the editor of file f is the active one:
\* showDependencyGraph(f) is called, no message being under way.
ShowGraphCommand(f) ==
    /\ pc = "done"
    /\ toWebview = <<>> /\ toExtension = <<>>
    /\ messageHandlers < MaxTimers
    /\ entry' = "command"
    /\ fileUri' = f
    /\ pc' = "show"
    /\ LoaderReset
    /\ UNCHANGED <<nodeRecords, edgeRecords>>
    /\ UNCHANGED <<runVars, documentLines, linesCsv, lineContents, nodesFileExists, edgesFileExists,
                   translatedFileExists, informed, documentChanged, panelFile,
                   currentPanel, analyzedFileUri, messageHandlers, listenerVars>>
    /\ UNCHANGED <<graphVars, viewVars, toWebview, toExtension, extVars, histVars, clientVars>>

\* performDependencyAnalysis(AnalyzedFile) is called again after a verification of the
\* file, no message being under way.
performDependencyAnalysis ==
    /\ pc = "done"
    /\ toWebview = <<>> /\ toExtension = <<>>
    /\ messageHandlers < MaxTimers
    /\ entry' = "analysis"
    /\ fileUri' = AnalyzedFile
    /\ pc' = "export"
    /\ LoaderReset
    /\ clientIdx' = 1
    /\ seenEdges' = {}
    /\ translatedEdges' = <<>>
    /\ UNCHANGED <<nodeRecords, edgeRecords, clientRows, clientPc, clientEdges, clientNodes>>
    /\ UNCHANGED <<runVars, documentLines, linesCsv, lineContents, nodesFileExists, edgesFileExists,
                   translatedFileExists, informed, documentChanged, panelFile,
                   currentPanel, analyzedFileUri, messageHandlers, listenerVars>>
    /\ UNCHANGED <<graphVars, viewVars, toWebview, toExtension, extVars, histVars>>

\* Traces of a session with two files: nodes 1 and 2 are on lines 1 and 2 of the
\* analyzed file a.vpr, node 2 being an explicit assertion that depends on node 1 and
\* is a source itself; nodes 3 and 4 are on lines 1 and 3 of lib.vpr, which a.vpr
\* imports; the session starts with the analysis of a.vpr.
PanelKinds == <<<<"Assumption", "Explicit">>, <<"Assertion", "Explicit">>,
                <<"Assumption", "Implicit">>, <<"Assertion", "Implicit">>>>

PanelPositions == <<<<AnalyzedFile, 1>>, <<AnalyzedFile, 2>>, <<"lib.vpr", 1>>, <<"lib.vpr", 3>>>>

PanelRows == <<<<1, 2>>, <<2, 1>>, <<3, 4>>, <<3, 1>>>>

OpenedFiles == {AnalyzedFile, "lib.vpr"}

InitPanel == InitWithRecords(NodeRecordsAt(PanelKinds, PanelPositions), PanelRows, "analysis")

NextPanel ==
    \/ NextLoad
    \/ NextAnalysis
    \/ \E n \in Lines : NodeClick(n)
    \/ \E l \in 1..LineCount : CursorMove(l)
    \/ WebviewReceive
    \/ ExtReceive
    \/ TimerFire
    \/ ClosePanel
    \/ toggleDependencyAnalysis
    \/ \E f \in OpenedFiles : ShowGraphCommand(f)
    \/ performDependencyAnalysis

SpecPanel == InitPanel /\ [][NextPanel]_vars

\* ------------------------------------------------------------ runs in flight
\* The awaits of performDependencyAnalysis in their order, up to the call of
\* showDependencyGraph; a run is at the await whose completion it waits for.
RunPositions == <<"readFile", "mkdir", "writeLines", "readNodes", "readEdges",
                  "writeTranslated", "openDocument", "showDocument">>

\* The position after position p.
NextPosition(p) ==
    LET i == CHOOSE k \in 1..Len(RunPositions) : RunPositions[k] = p
    IN RunPositions[i + 1]

\* Awaits that neither write a file of the export directory nor show the graph.
ReadingAwaits == {"readFile", "mkdir", "readNodes", "readEdges", "openDocument"}

\* performDependencyAnalysis(f) is called: it runs up to its first await, readFile.
StartRun(f) ==
    /\ runPc[f] = "idle"
    /\ runPc' = [runPc EXCEPT ![f] = "readFile"]
    /\ UNCHANGED <<linesCsvFile, translatedBy, displayed>>
    /\ UNCHANGED <<documentLines, linesCsv, lineContents, nodesFileExists, edgesFileExists,
                   translatedFileExists, informed, documentChanged, panelVars>>
    /\ UNCHANGED <<inputVars, loadVars, graphVars, viewVars, toWebview, toExtension,
                   extVars, histVars, clientVars>>

\* An await of the run for f that writes no file completes.
Await(f) ==
    /\ runPc[f] \in ReadingAwaits
    /\ runPc' = [runPc EXCEPT ![f] = NextPosition(runPc[f])]
    /\ UNCHANGED <<linesCsvFile, translatedBy, displayed>>
    /\ UNCHANGED <<documentLines, linesCsv, lineContents, nodesFileExists, edgesFileExists,
                   translatedFileExists, informed, documentChanged, panelVars>>
    /\ UNCHANGED <<inputVars, loadVars, graphVars, viewVars, toWebview, toExtension,
                   extVars, histVars, clientVars>>

\* exportLinesToCSV, line 123: lines.csv of the shared export directory is written with
\* the lines of f.
WriteLinesCsv(f) ==
    /\ runPc[f] = "writeLines"
    /\ linesCsvFile' = f
    /\ runPc' = [runPc EXCEPT ![f] = NextPosition(runPc[f])]
    /\ UNCHANGED <<translatedBy, displayed>>
    /\ UNCHANGED <<documentLines, linesCsv, lineContents, nodesFileExists, edgesFileExists,
                   translatedFileExists, informed, documentChanged, panelVars>>
    /\ UNCHANGED <<inputVars, loadVars, graphVars, viewVars, toWebview, toExtension,
                   extVars, histVars, clientVars>>

\* translateEdgesToLineNumbers, line 201: edges_translated.csv of the shared export
\* directory is written by the run for f.
WriteTranslatedEdges(f) ==
    /\ runPc[f] = "writeTranslated"
    /\ translatedBy' = f
    /\ runPc' = [runPc EXCEPT ![f] = NextPosition(runPc[f])]
    /\ UNCHANGED <<linesCsvFile, displayed>>
    /\ UNCHANGED <<documentLines, linesCsv, lineContents, nodesFileExists, edgesFileExists,
                   translatedFileExists, informed, documentChanged, panelVars>>
    /\ UNCHANGED <<inputVars, loadVars, graphVars, viewVars, toWebview, toExtension,
                   extVars, histVars, clientVars>>

\* showTextDocument has completed and showDependencyGraph(f, exportDir), which has no
\* await, is called: the graph of f is loaded with the line contents of lines.csv and
\* displayed, edges_translated.csv being the file the load is given; the run ends.
ShowRunGraph(f) ==
    /\ runPc[f] = "showDocument"
    /\ displayed' = [graph |-> f, lines |-> linesCsvFile, translated |-> translatedBy]
    /\ runPc' = [runPc EXCEPT ![f] = "idle"]
    /\ UNCHANGED <<linesCsvFile, translatedBy>>
    /\ UNCHANGED <<documentLines, linesCsv, lineContents, nodesFileExists, edgesFileExists,
                   translatedFileExists, informed, documentChanged, panelVars>>
    /\ UNCHANGED <<inputVars, loadVars, graphVars, viewVars, toWebview, toExtension,
                   extVars, histVars, clientVars>>

\* Runs of performDependencyAnalysis for a.vpr and lib.vpr, started in any order and
\* at any time.
InitRuns == InitPanel

NextRuns ==
    \E f \in OpenedFiles :
        \/ StartRun(f)
        \/ Await(f)
        \/ WriteLinesCsv(f)
        \/ WriteTranslatedEdges(f)
        \/ ShowRunGraph(f)

SpecRuns == InitRuns /\ [][NextRuns]_vars

\* Traces of clicks and cursor moves after an analysis in which every timer that was
\* set runs out: a setTimeout callback that is due is eventually called.
InitSuppress == InitWith(ViewKinds, SubSeq(SessionRows, 1, 3), "analysis")

NextSuppress ==
    \/ NextLoad
    \/ \E n \in Lines : NodeClick(n)
    \/ \E l \in 1..LineCount : CursorMove(l)
    \/ WebviewReceive
    \/ ExtReceive
    \/ TimerFire

SpecSuppress == InitSuppress /\ [][NextSuppress]_vars /\ WF_vars(TimerFire)

\* ------------------------------------------------------------ claims on the loader
EdgePairs(es) == {<<es[i].source, es[i].target>> : i \in 1..Len(es)}

IsExplicitAssertion(line) == Includes(nodeCategories[line], "ExplicitAssertion")

HasRawParent(line) == \E i \in 1..Len(rawEdges) : rawEdges[i].target = line

\* A line that bypass resolution looks through: an explicit assertion with a parent.
Bypassable(line) == IsExplicitAssertion(line) /\ HasRawParent(line)

RawParents(line) == {rawEdges[i].source : i \in {j \in 1..Len(rawEdges) : rawEdges[j].target = line}}

\* The lines reached from the lines of S by following raw edges backwards, leaving
\* only from bypassable lines (S included).
RECURSIVE BypassReach(_)
BypassReach(S) ==
    LET T == S \cup UNION {RawParents(l) : l \in {x \in S : Bypassable(x)}}
    IN IF T = S THEN S ELSE BypassReach(T)

\* The line lies on a cycle of bypassable lines.
OnBypassCycle(line) ==
    /\ Bypassable(line)
    /\ \E p \in RawParents(line) : Bypassable(p) /\ line \in BypassReach({p})

ResolutionReturned == pc = "dfs" /\ callStack = <<>>

\* C1: neither the raw intra-file edge list nor the resolved edge list holds an edge
\* whose source line equals its target line.
C1_NoSelfEdges ==
    /\ \A i \in 1..Len(rawEdges) : rawEdges[i].source # rawEdges[i].target
    /\ \A i \in 1..Len(edges) : edges[i].source # edges[i].target

\* C1 witness: the graph is built from a trace with an edge record between two nodes
\* of one line, and with a raw edge whose bypassed source resolves to its own target.
C1_Witness ==
    /\ pc = "done"
    /\ \E i \in 1..Len(edgeRecords) : edgeRecords[i].source = edgeRecords[i].target
    /\ \E i \in 1..Len(rawEdges) :
          /\ Bypassable(rawEdges[i].source)
          /\ rawEdges[i].target \in RawParents(rawEdges[i].source)
          /\ ~Bypassable(rawEdges[i].target)
    /\ Len(edges) > 0

\* C2: the resolved edge list holds no (source, target) pair twice.
C2_NoDuplicateEdges ==
    \A i, j \in 1..Len(edges) :
        (edges[i].source = edges[j].source /\ edges[i].target = edges[j].target) => i = j

\* C2 witness: a pair (r, t) is produced twice, by the raw edge (r, t) and by the
\* raw edge (s, t) whose explicit-assertion source s is bypassed to r.
C2_Witness ==
    /\ pc = "done"
    /\ \E r, s, t \in Lines :
          /\ r # s /\ s # t /\ r # t
          /\ {<<r, t>>, <<s, t>>, <<r, s>>} \subseteq EdgePairs(rawEdges)
          /\ Bypassable(s)
          /\ ~IsExplicitAssertion(r)
          /\ <<r, t>> \in EdgePairs(edges)

\* C3: the source of every resolved edge is not an explicit assertion, or it has no
\* parent in the raw intra-file edge set.
C3_BypassCorrectness ==
    \A i \in 1..Len(edges) :
        \/ ~IsExplicitAssertion(edges[i].source)
        \/ ~HasRawParent(edges[i].source)

\* C3 witness: the built graph has an edge that bypass resolution introduced and an
\* edge kept on a parentless explicit assertion.
C3_Witness ==
    /\ pc = "done"
    /\ \E i \in 1..Len(edges) : <<edges[i].source, edges[i].target>> \notin EdgePairs(rawEdges)
    /\ \E i \in 1..Len(edges) : IsExplicitAssertion(edges[i].source)

\* C4 (as claimed): a resolution that ran into a cycle of explicit assertions returns
\* a line of that cycle as a real source.
C4_CycleFallsBackToNode ==
    ResolutionReturned =>
        ((\E c \in visited : OnBypassCycle(c))
            => (\E d \in Range(realSources) : OnBypassCycle(d)))

\* C5: every resolution visits a line at most once, and the loader terminates.
C5_TerminatesVisitingOnce ==
    /\ [](\A l \in Lines : visitCount[l] <= 1)
    /\ <>(pc = "done")

\* C5 witness: a resolution has returned after walking a cycle of explicit assertions.
C5_Witness ==
    /\ ResolutionReturned
    /\ \E c \in visited : OnBypassCycle(c)

\* C6: for every raw edge (s, t), every line r reached from s backwards through
\* bypassable lines that is itself not bypassable and differs from t gives the
\* resolved edge (r, t); a raw edge with a source that is no explicit assertion is kept.
C6_BypassCompleteness ==
    pc = "done" =>
        \A i \in 1..Len(rawEdges) :
            \A r \in BypassReach({rawEdges[i].source}) :
                (~Bypassable(r) /\ r # rawEdges[i].target)
                    => <<r, rawEdges[i].target>> \in EdgePairs(edges)

\* C6 witness: a raw edge whose source is bypassed over two hops, and a raw edge
\* whose source is a parentless explicit assertion, both in the built graph.
C6_Witness ==
    /\ pc = "done"
    /\ \E r, m, s \in Lines :
          /\ Bypassable(s) /\ Bypassable(m) /\ ~IsExplicitAssertion(r)
          /\ m \in RawParents(s) /\ r \in RawParents(m)
          /\ \E i \in 1..Len(rawEdges) :
                rawEdges[i].source = s /\ <<r, rawEdges[i].target>> \in EdgePairs(edges)

\* ------------------------------------------------------------ claims on the queries
Vertices == Range(cyNodes)

\* The immediate neighbours of vertex n: sources of its incoming edges (causes), or
\* targets of its outgoing edges (effects).
ImmediateNeighbours(n, outgoing) ==
    IF outgoing
    THEN {cyEdges[i].target : i \in {j \in 1..Len(cyEdges) : cyEdges[j].source = n}}
    ELSE {cyEdges[i].source : i \in {j \in 1..Len(cyEdges) : cyEdges[j].target = n}}

\* The vertices reached from the vertices of S by one or more edges in the direction.
RECURSIVE Closure(_, _)
Closure(S, outgoing) ==
    LET T == S \cup UNION {ImmediateNeighbours(x, outgoing) : x \in S}
    IN IF T = S THEN S ELSE Closure(T, outgoing)

TransitiveClosure(n, outgoing) == Closure(ImmediateNeighbours(n, outgoing), outgoing)

ReportLines(r) == Range(r.neighbors) \cup Range(r.indirectNeighbors)

\* C7: in every result posted for a vertex, the indirect list and the direct list are
\* disjoint, and every indirect line is in the transitive closure of the vertex in the
\* reported direction without being an immediate neighbour.
C7_DirectIndirectPartition ==
    lastReport.lineNumber # None =>
        /\ Range(lastReport.indirectNeighbors) \cap Range(lastReport.neighbors) = {}
        /\ Range(lastReport.indirectNeighbors) \subseteq
              TransitiveClosure(lastReport.lineNumber, lastReport.showDependents)
                 \ ImmediateNeighbours(lastReport.lineNumber, lastReport.showDependents)

\* C7 witness: a posted result with a direct and an indirect line.
C7_Witness ==
    /\ lastReport.lineNumber # None
    /\ Len(lastReport.neighbors) > 0
    /\ Len(lastReport.indirectNeighbors) > 0

\* A step that unchecks one checkbox while a vertex is selected.
UncheckStep ==
    /\ selectedNode # None
    /\ \E c \in DOMAIN filterState :
          filterState[c] /\ filterState' = [filterState EXCEPT ![c] = FALSE]

\* C8 (as claimed): whatever the depth, unchecking a checkbox adds no line to the
\* reported result.
C8_UncheckOnlyRemoves ==
    [][UncheckStep => ReportLines(lastReport') \subseteq ReportLines(lastReport)]_vars

\* C8 (amended): when indirect neighbours are already shown, unchecking a checkbox adds
\* no line to the reported result.
C8_UncheckOnlyRemovesWhenIndirect ==
    [][(UncheckStep /\ showIndirect)
          => ReportLines(lastReport') \subseteq ReportLines(lastReport)]_vars

\* C8 witness: indirect neighbours are shown, a checkbox is unchecked, and a line of
\* the selected vertex's closure is missing from the reported result.
C8_Witness ==
    /\ selectedNode # None
    /\ showIndirect
    /\ \E c \in DOMAIN filterState : ~filterState[c]
    /\ lastReport.lineNumber = selectedNode
    /\ \E l \in TransitiveClosure(selectedNode, showDependents) :
          l # selectedNode /\ l \notin ReportLines(lastReport)
    /\ ReportLines(lastReport) # {}

\* Nothing is in flight and no reset timer is pending.
Quiescent == pc = "done" /\ toWebview = <<>> /\ toExtension = <<>> /\ timers = 0

\* The decorations of the result of the query for vertex n under the current modes.
DecorationsOfQuery(n) ==
    HighlightedDecorations(
        highlightNodeAndDependencies(n, showIndirect, showDependents, filterState).message)

\* C9 (as claimed): once everything pending is processed, the decorations are those of
\* the query for the last triggered selection, or none after a deselecting click.
C9_LastTriggerWins ==
    Quiescent =>
        /\ lastTrigger \in Vertices => decorations = DecorationsOfQuery(lastTrigger)
        /\ lastTrigger = None => decorations = NoDecorations

\* The two entry points post the same result for vertex n and select the same vertex.
SameEffect(n) ==
    LET click == ClickEffect(n)
        move == MessageEffect(n)
    IN /\ move.posts
       /\ click.selected = move.selected
       /\ click.message.lineNumber = move.message.lineNumber
       /\ click.message.neighbors = move.message.neighbors
       /\ click.message.indirectNeighbors = move.message.indirectNeighbors

QueryResult(n) ==
    highlightNodeAndDependencies(n, showIndirect, showDependents, filterState).message

FilterStep == filterState' # filterState

\* C12 (as claimed): a change of the filter changes neither direction nor depth, and a
\* change of direction or depth changes neither the filter nor the other mode.
C12_ModesIndependent ==
    [][/\ FilterStep => (showDependents' = showDependents /\ showIndirect' = showIndirect)
       /\ showDependents' # showDependents
             => (filterState' = filterState /\ showIndirect' = showIndirect)
       /\ showIndirect' # showIndirect
             => (filterState' = filterState /\ showDependents' = showDependents)]_vars

\* C12 (amended): a change of the filter leaves the direction and makes the depth
\* indirect; a change of direction changes neither the filter nor the depth; a change
\* of depth leaves the direction, and the filter too unless a checkbox caused it.
C12_ModesIndependentButDepthOnFilter ==
    [][/\ FilterStep => (showDependents' = showDependents /\ showIndirect')
       /\ showDependents' # showDependents
             => (filterState' = filterState /\ showIndirect' = showIndirect)
       /\ showIndirect' # showIndirect
             => (showDependents' = showDependents /\ (FilterStep => showIndirect'))]_vars

\* C12 witness: the filter was changed and then the depth toggled back to direct-only,
\* in the dependents direction.
C12_Witness ==
    /\ pc = "done"
    /\ \E c \in DOMAIN filterState : ~filterState[c]
    /\ ~showIndirect
    /\ showDependents

\* A step that changes the filter, the direction or the depth while a vertex is
\* selected.
ModeChangeWithSelection ==
    /\ selectedNode # None
    /\ \/ filterState' # filterState
       \/ showDependents' # showDependents
       \/ showIndirect' # showIndirect

\* C17: every step that changes the filter, the direction or the depth while a vertex
\* is selected keeps the selection and posts the result of the query for that vertex
\* under the new modes.
C17_ModeChangeReports ==
    [][ModeChangeWithSelection =>
          /\ selectedNode' = selectedNode
          /\ Len(toExtension') = Len(toExtension) + 1
          /\ toExtension'[Len(toExtension')] =
                highlightNodeAndDependencies(selectedNode, showIndirect', showDependents',
                                             filterState').message]_vars

\* C17 witness: the result waiting for the extension is not the one of a click: it was
\* posted for the selected vertex after the direction, the depth and the filter changed.
C17_Witness ==
    /\ selectedNode # None
    /\ toExtension # <<>>
    /\ toExtension[Len(toExtension)].lineNumber = selectedNode
    /\ toExtension[Len(toExtension)].showDependents
    /\ Len(toExtension[Len(toExtension)].indirectNeighbors) > 0
    /\ \E c \in DOMAIN filterState : ~filterState[c]

\* The state of every checkbox is the initial one: every category is enabled.
DefaultFilter == \A c \in DOMAIN filterState : filterState[c]

\* C13 (as claimed): under the default filter the direct list of the result posted
\* for the selected vertex holds every immediate neighbour of the vertex in the
\* current direction.
C13_DefaultFilterReportsAllDirect ==
    (selectedNode # None /\ DefaultFilter) =>
        ImmediateNeighbours(selectedNode, showDependents) \subseteq Range(lastReport.neighbors)

\* A category of line l has its checkbox checked.
HasEnabledCategory(l) ==
    \E i \in 1..Len(cyCategories[l]) :
        /\ cyCategories[l][i] \in DOMAIN filterState
        /\ filterState[cyCategories[l][i]]

\* The lines of the closure of n that are no immediate neighbours of n.
NonImmediate(n, outgoing) ==
    TransitiveClosure(n, outgoing) \ ImmediateNeighbours(n, outgoing)

HandlesLineWithoutVertex ==
    /\ pc = "done"
    /\ toWebview # <<>>
    /\ Head(toWebview) \notin Vertices
    /\ toWebview' = Tail(toWebview)

\* C15 (as claimed): when the webview handles a query for a line without a vertex, it
\* posts a result for that line with empty direct and indirect lists.
C15_NoVertexReportsEmpty ==
    [][HandlesLineWithoutVertex =>
          /\ Len(toExtension') = Len(toExtension) + 1
          /\ toExtension'[Len(toExtension')].neighbors = <<>>
          /\ toExtension'[Len(toExtension')].indirectNeighbors = <<>>]_vars

\* The extension calls highlightLines with the next message of the webview.
HighlightLinesStep ==
    /\ pc = "done"
    /\ highlightsEnabled
    /\ toExtension # <<>>
    /\ toExtension' = Tail(toExtension)

\* C16 (as claimed): a call of highlightLines with a line number below or above the
\* lines of the document (0 being the request to clear) leaves no decoration on the
\* editor, warns the user and does not throw.
C16_OutOfRangeClears ==
    [][(HighlightLinesStep
          /\ (Head(toExtension).lineNumber < 0 \/ Head(toExtension).lineNumber > LineCount))
          => /\ decorations' = NoDecorations
             /\ ShowsOutOfRangeWarning(Head(toExtension))
             /\ ~LineAtThrows(Head(toExtension))]_vars

\* The row of nodes.csv that describes a node.
PositionOf(id) == nodeRecords[CHOOSE i \in 1..Len(nodeRecords) : nodeRecords[i].id = id]

\* The rows of edges.csv read so far.
ReadRecords == 1..(edgeIdx - 1)

SourceOf(i) == PositionOf(edgeRecords[i].source)
TargetOf(i) == PositionOf(edgeRecords[i].target)

\* Both endpoints of row i name a line, both are in the analyzed file, the lines differ.
Qualifies(i) ==
    /\ SourceOf(i).line # None /\ SourceOf(i).file = AnalyzedFile
    /\ TargetOf(i).line # None /\ TargetOf(i).file = AnalyzedFile
    /\ SourceOf(i).line # TargetOf(i).line

QualifyingPairs == {<<SourceOf(i).line, TargetOf(i).line>> : i \in {j \in ReadRecords : Qualifies(j)}}

\* The source of row i lies in another file.
ExternalSource(i) == SourceOf(i).line # None /\ SourceOf(i).file # AnalyzedFile

\* C19: every raw edge, every parent entry and every endpoint of a graph edge comes from
\* a row of edges.csv whose endpoints both name a line of the analyzed file, with
\* different lines; a row whose source lies in another file is recorded in the
\* external dependency index of its target line (when the target is in the analyzed
\* file), and the index holds nothing else.
C19_IntraFileEdgesOnly ==
    /\ \A e \in Range(rawEdges) : <<e.source, e.target>> \in QualifyingPairs
    /\ \A t \in Lines : \A p \in Range(parentMap[t]) : <<p, t>> \in QualifyingPairs
    /\ \A e \in Range(edges) :
          /\ \E q \in QualifyingPairs : q[1] = e.source
          /\ \E q \in QualifyingPairs : q[2] = e.target
    /\ \A i \in ReadRecords :
          (ExternalSource(i) /\ TargetOf(i).line # None /\ TargetOf(i).file = AnalyzedFile)
             => Includes(externalDependenciesByFile[TargetOf(i).line][SourceOf(i).file],
                         SourceOf(i).line)
    /\ \A l \in Lines : \A f \in ExternalFiles :
          \A x \in Range(externalDependenciesByFile[l][f]) :
             \E i \in ReadRecords :
                /\ ExternalSource(i)
                /\ SourceOf(i).file = f /\ SourceOf(i).line = x
                /\ TargetOf(i).file = AnalyzedFile /\ TargetOf(i).line = l

\* The load is finished, and edges.csv held a row between two lines of the analyzed
\* file, a row whose source lies in another file and a row between equal lines.
C19_Witness ==
    /\ pc = "done"
    /\ rawEdges # <<>>
    /\ \E l \in Lines : \E f \in ExternalFiles : externalDependenciesByFile[l][f] # <<>>
    /\ \E i \in ReadRecords :
          /\ SourceOf(i).file = AnalyzedFile /\ TargetOf(i).file = AnalyzedFile
          /\ SourceOf(i).line = TargetOf(i).line

\* C20 (as claimed): after translateEdgesToLineNumbers and loadGraphFromCSV of the
\* earlier pipeline, the loaded graph has no two edges with the same source and target.
C20_NoParallelEdges ==
    clientPc = "done" =>
        \A i, j \in 1..Len(clientEdges) :
            (clientEdges[i].source = clientEdges[j].source
               /\ clientEdges[i].target = clientEdges[j].target) => i = j

Increasing(s) == \A i, j \in 1..Len(s) : i < j => s[i] < s[j]

\* C18 (as claimed): the direct and the indirect list of every posted result are
\* duplicate-free and in increasing order of line number.
C18_ListsSortedDistinct ==
    /\ Increasing(lastReport.neighbors)
    /\ Increasing(lastReport.indirectNeighbors)

\* C18 (amended): the direct and the indirect list of every posted result are
\* duplicate-free.
C18_ListsDistinct ==
    /\ NoDuplicates(lastReport.neighbors)
    /\ NoDuplicates(lastReport.indirectNeighbors)

\* C18 witness: a posted result with an indirect line that two immediate neighbours of
\* the selected vertex lead to.
C18_Witness ==
    /\ lastReport.lineNumber # None
    /\ \E l \in Range(lastReport.indirectNeighbors) :
          \E x, y \in ImmediateNeighbours(lastReport.lineNumber, lastReport.showDependents) :
              /\ x # y
              /\ l \in ImmediateNeighbours(x, lastReport.showDependents)
              /\ l \in ImmediateNeighbours(y, lastReport.showDependents)


\* ------------------------------------------------------------ claims on the built graph
\* The rows of edges.csv whose source lies in file f and whose target is line l of the
\* analyzed file.
ExternalRowsInto(l, f) ==
    {i \in 1..Len(edgeRecords) :
        /\ ExternalSource(i) /\ SourceOf(i).file = f
        /\ TargetOf(i).file = AnalyzedFile /\ TargetOf(i).line = l}

\* C21: on every vertex of the built graph and for every other file, the list of
\* external dependency lines is strictly increasing (hence free of duplicates).
C21_ExternalListsIncreasing ==
    pc = "done" =>
        \A l \in Vertices : \A f \in ExternalFiles : Increasing(cyExternalDependencies[l][f])

\* The graph is built and a vertex depends on two lines of another file, the greater
\* line named by the earlier row.
C21_Witness ==
    /\ pc = "done"
    /\ \E l \in Vertices : \E f \in ExternalFiles :
          \E i, j \in ExternalRowsInto(l, f) : i < j /\ SourceOf(i).line > SourceOf(j).line

\* C22: on every vertex of the built graph, externalDependencyCount is the number of
\* (file, position) entries of its externalDependencies map.
C22_CountIsSumOfLengths ==
    pc = "done" =>
        \A l \in Vertices :
            cyExternalDependencyCount[l] =
                Cardinality(UNION {{<<f, k>> : k \in 1..Len(cyExternalDependencies[l][f])} :
                                      f \in ExternalFiles})

\* The graph is built, a vertex depends on lines of two other files, and another
\* vertex has no external dependency.
C22_Witness ==
    /\ pc = "done"
    /\ \E l \in Vertices : \A f \in ExternalFiles : cyExternalDependencies[l][f] # <<>>
    /\ \E l \in Vertices : \A f \in ExternalFiles : cyExternalDependencies[l][f] = <<>>

\* C23 (as claimed): once the graph is built, every row of edges.csv from another file
\* to a line of the analyzed file has its target line as a vertex, and the source line
\* is in the external dependencies of that vertex.
C23_ExternalTargetsExposed ==
    pc = "done" =>
        \A l \in Lines : \A f \in ExternalFiles : \A i \in ExternalRowsInto(l, f) :
            /\ l \in Vertices
            /\ Includes(cyExternalDependencies[l][f], SourceOf(i).line)

\* The lines that are an endpoint of a raw edge.
RawEndpointLines == {rawEdges[i].source : i \in 1..Len(rawEdges)}
                    \cup {rawEdges[i].target : i \in 1..Len(rawEdges)}

\* C24: the vertices of the built graph are exactly the endpoints of the raw edges,
\* they include every endpoint of every resolved edge, no vertex is listed twice, and
\* each vertex carries the categories recorded for its line, or Unknown if there are
\* none.
C24_VerticesAreRawEndpoints ==
    pc = "done" =>
        /\ Vertices = RawEndpointLines
        /\ NoDuplicates(cyNodes)
        /\ \A i \in 1..Len(cyEdges) : {cyEdges[i].source, cyEdges[i].target} \subseteq Vertices
        /\ \A v \in Vertices :
              /\ cyCategories[v] # <<>>
              /\ cyCategories[v] =
                     IF nodeCategories[v] = <<>> THEN <<"Unknown">> ELSE nodeCategories[v]

\* The graph is built and a vertex is the source of a raw edge but, being bypassed, of
\* no edge of the graph.
C24_Witness ==
    /\ pc = "done"
    /\ \E v \in Vertices :
          /\ Bypassable(v)
          /\ \E i \in 1..Len(rawEdges) : rawEdges[i].source = v
          /\ \A i \in 1..Len(cyEdges) : cyEdges[i].source # v


\* ------------------------------------------------------------ claims on the categories
\* The category the documentation of the trace gives to a kind and subtype.
CategoryOf(kind, subtype) ==
    CASE kind = "Assumption" /\ subtype = "Explicit" -> "ExplicitAssumption"
      [] kind = "Assumption" /\ subtype # "Explicit" -> "ImplicitAssumption"
      [] kind = "Assertion" /\ subtype = "Explicit" -> "ExplicitAssertion"
      [] kind = "Assertion" /\ subtype \in {"ImplicitPostcondition", "ExplicitPostcondition"}
            -> "ExplicitAssertionPostcondition"
      [] kind = "Assertion" /\ subtype \notin {"Explicit", "ImplicitPostcondition",
                                              "ExplicitPostcondition"}
            -> "ImplicitAssertion"
      [] kind = "Infeasible" -> "Infeasible"
      [] OTHER -> "Unknown"

\* The rows of nodes.csv read so far that lie on line l of the analyzed file.
RecordsOnLine(l) ==
    {i \in 1..(nodeIdx - 1) : nodeRecords[i].file = AnalyzedFile /\ nodeRecords[i].line = l}

\* C25: for every row of nodes.csv read so far, getNodeCategories returns one
\* category, the one of the table; Unknown is returned exactly for a kind other than
\* Assumption, Assertion and Infeasible; a line with a single row read carries that
\* category.
C25_OneCategoryPerKind ==
    /\ \A i \in 1..(nodeIdx - 1) :
          LET r == nodeRecords[i]
              categories == getNodeCategories(r.nodeType, r.assumptionType)
          IN /\ categories = <<CategoryOf(r.nodeType, r.assumptionType)>>
             /\ (categories[1] = "Unknown")
                   <=> (r.nodeType \notin {"Assumption", "Assertion", "Infeasible"})
    /\ \A l \in Lines : \A i \in RecordsOnLine(l) :
          RecordsOnLine(l) = {i}
             => nodeCategories[l] =
                    <<CategoryOf(nodeRecords[i].nodeType, nodeRecords[i].assumptionType)>>

\* All rows are read; line 2 has the single row of a postcondition assertion, and a
\* row of another kind than the three known ones was read for line 1.
C25_Witness ==
    /\ nodeIdx > Len(nodeRecords)
    /\ nodeCategories[2] = <<"ExplicitAssertionPostcondition">>
    /\ Includes(nodeCategories[1], "Unknown")

\* C26: at every point of the reading, the categories of a line are those of the rows
\* read so far for that line of the analyzed file, each once.
C26_CategoriesAreUnion ==
    \A l \in Lines :
        /\ NoDuplicates(nodeCategories[l])
        /\ Range(nodeCategories[l]) =
               {CategoryOf(nodeRecords[i].nodeType, nodeRecords[i].assumptionType) :
                   i \in RecordsOnLine(l)}

\* All rows are read; line 1 has two categories from three rows, two rows giving the
\* same category and the last row not being the only one to give its category.
C26_Witness ==
    /\ nodeIdx > Len(nodeRecords)
    /\ Cardinality(RecordsOnLine(1)) = 3
    /\ Len(nodeCategories[1]) = 2
    /\ nodeCategories[1][1] # CategoryOf(nodeRecords[3].nodeType, nodeRecords[3].assumptionType)


WellFormedPairs ==
    {<<nodeToLine(edgeRecords[i].source), nodeToLine(edgeRecords[i].target)>> :
        i \in {j \in 1..Len(edgeRecords) : edgeRecords[j].fields = 3}}

\* C28 (as claimed): when the analysis is finished, every translated edge and every raw
\* edge of the graph comes from a row of edges.csv with three fields, and every such
\* row between different lines is among both.
C28_MalformedRowsSkipped ==
    (pc = "done" /\ nodesFileExists /\ edgesFileExists) =>
        /\ \A k \in 1..Len(translatedEdges) :
              <<translatedEdges[k][1], translatedEdges[k][2]>> \in WellFormedPairs
        /\ \A e \in Range(rawEdges) : <<e.source, e.target>> \in WellFormedPairs
        /\ \A q \in WellFormedPairs :
              q[1] # q[2] =>
                 /\ \E k \in 1..Len(translatedEdges) :
                       <<translatedEdges[k][1], translatedEdges[k][2]>> = q
                 /\ \E e \in Range(rawEdges) : <<e.source, e.target>> = q

\* C29 (as claimed): when the analysis is finished and nodes.csv or edges.csv did not
\* exist, no row was translated, the displayed graph is empty and the user was told
\* that no graph data is available.
C29_MissingFilesReported ==
    (pc = "done" /\ (~nodesFileExists \/ ~edgesFileExists)) =>
        /\ translatedEdges = <<>> /\ clientIdx = 1
        /\ cyNodes = <<>> /\ cyEdges = <<>>
        /\ informed


\* C30 (as claimed): once the analyzed document was changed after the analysis, the
\* highlights are disabled and the editor shows no decoration.
C30_ChangeDisablesHighlights ==
    documentChanged => (~highlightsEnabled /\ decorations = NoDecorations)

\* The lines that carry a neighbour decoration of any of the four types.
NeighbourDecorated ==
    decorations.direct \cup decorations.indirect
        \cup decorations.directDependant \cup decorations.indirectDependant

\* C37: the selected line carries no direct or indirect decoration of either direction,
\* and every decorated line is a line 1..lineCount of the document, whatever lists the
\* webview sends (the selected line or a line beyond the document among them).
C37_SelectedNeverNeighbour ==
    /\ decorations.selected \cap NeighbourDecorated = {}
    /\ (decorations.selected \cup NeighbourDecorated) \subseteq 1..LineCount

\* A call with line 3 selected, neighbours 2 and lineCount + 1 and indirect neighbour 3:
\* only line 2 is decorated as a neighbour.
C37_Witness ==
    /\ decorations.selected = {3}
    /\ decorations.direct = {2}
    /\ decorations.indirect = {}

\* The lines decorated as dependencies, and those decorated as dependants.
DependencyDecorated == decorations.direct \cup decorations.indirect
DependantDecorated == decorations.directDependant \cup decorations.indirectDependant

\* C38: the editor never shows decorations of both directions: the dependency
\* decorations are empty whenever a dependant decoration is present, and conversely.
C38_OneDirectionAtATime == DependencyDecorated = {} \/ DependantDecorated = {}

\* Two calls of highlightLines in a row, after which the lines are decorated as
\* dependants.
C38_Witness ==
    /\ timers = 2
    /\ DependantDecorated # {}
    /\ DependencyDecorated = {}

\* A tap on a vertex: a result is posted while direction, depth and filter stay.
TapStep ==
    /\ pc = "done"
    /\ Len(toExtension') = Len(toExtension) + 1
    /\ UNCHANGED <<showIndirect, showDependents, filterState>>

\* The message posted by the step.
PostedMessage == toExtension'[Len(toExtension')]

\* A step that changes the direction, the depth or the filter while no vertex is
\* selected.
ModeChangeWithoutSelection ==
    /\ selectedNode = None
    /\ \/ filterState' # filterState
       \/ showDependents' # showDependents
       \/ showIndirect' # showIndirect

\* C39: a tap on the selected vertex never highlights it again but posts line 0 with
\* empty lists and leaves the webview without a selected vertex; the extension answers
\* a result for line 0 by removing every decoration, without a warning; and a change of
\* direction, depth or filter while no vertex is selected posts nothing.
C39_TapOnSelectedClears ==
    [][/\ (TapStep /\ selectedNode # None) => PostedMessage.lineNumber # selectedNode
       /\ (TapStep /\ PostedMessage.lineNumber = 0) =>
             /\ selectedNode # None
             /\ selectedNode' = None
             /\ PostedMessage.neighbors = <<>>
             /\ PostedMessage.indirectNeighbors = <<>>
             /\ \A l \in Lines : cyClasses'[l] = {}
       /\ (HighlightLinesStep /\ Head(toExtension).lineNumber = 0) =>
             /\ decorations' = NoDecorations
             /\ ~ShowsOutOfRangeWarning(Head(toExtension))
       /\ ModeChangeWithoutSelection => toExtension' = toExtension]_vars

\* The selection was cleared by a tap, the extension has removed the decorations in a
\* call of highlightLines, and the direction was changed since without a new report.
C39_Witness ==
    /\ selectedNode = None
    /\ timers > 0
    /\ decorations = NoDecorations
    /\ toExtension = <<>>
    /\ lastReport.lineNumber = 0
    /\ lastReport.showDependents # showDependents

\* The lines reached from the lines of S in the direction when a line without an
\* enabled category is not passed through.
RECURSIVE EnabledClosure(_, _)
EnabledClosure(S, outgoing) ==
    LET T == S \cup UNION {ImmediateNeighbours(x, outgoing) :
                              x \in {y \in S : HasEnabledCategory(y)}}
    IN IF T = S THEN S ELSE EnabledClosure(T, outgoing)

\* The lines of the closure of n that are reached only through lines that are filtered
\* out.
BehindFiltered(n, outgoing) ==
    NonImmediate(n, outgoing) \ EnabledClosure(ImmediateNeighbours(n, outgoing), outgoing)

\* C40: while a vertex is selected and indirect neighbours are shown, every line of its
\* closure that is reached only through filtered lines and has an enabled category
\* itself is in the reported indirect list.
C40_FilterAfterTraversal ==
    (selectedNode # None /\ showIndirect) =>
        \A l \in BehindFiltered(selectedNode, showDependents) :
            HasEnabledCategory(l) => l \in Range(lastReport.indirectNeighbors)

\* A line other than the selected one is behind a filtered neighbour, has an enabled
\* category and is reported.
C40_Witness ==
    /\ selectedNode # None
    /\ showIndirect
    /\ \E l \in BehindFiltered(selectedNode, showDependents) \ {selectedNode} :
          /\ HasEnabledCategory(l)
          /\ l \in Range(lastReport.indirectNeighbors)

\* No listener of the three is registered.
NoListener ==
    /\ selectionChangeListener = 0
    /\ documentChangeListener = 0
    /\ fileChangeListener = 0

\* C31: a step that closes the panel leaves analyzedFileUri undefined, the highlights
\* disabled, no listener registered and no decoration; and while there is no panel, no
\* step sends a query to the webview, applies a decoration, enables the highlights or
\* registers a listener.
C31_ClosedPanelDiscardsSession ==
    [][/\ (currentPanel /\ ~currentPanel') =>
             /\ analyzedFileUri' = NoFile
             /\ ~highlightsEnabled'
             /\ NoListener'
             /\ decorations' = NoDecorations
       /\ (~currentPanel /\ ~currentPanel') =>
             /\ toWebview' = <<>>
             /\ toExtension' = <<>>
             /\ decorations' = decorations
             /\ ~highlightsEnabled'
             /\ NoListener']_vars

\* The panel was closed after line 1 was reported, and the cursor was then moved to
\* line 2 without a query or a decoration.
C31_Witness ==
    /\ pc = "done"
    /\ ~currentPanel
    /\ selectedNode = 1
    /\ lastReport.lineNumber = 1
    /\ lastTrigger = 2
    /\ decorations = NoDecorations
    /\ timers = 0

\* The number of calls of highlightLines in a step: each call schedules one reset of
\* isUpdatingHighlights.
HighlightLinesCalls == timers' - timers

\* C34 (as claimed): the step in which the extension takes a result of the webview of
\* the open panel calls highlightLines exactly once, and at most one selection-change, one
\* document-change and one active-editor listener is registered.
C34_OneCallPerMessage ==
    [][/\ (HighlightLinesStep /\ currentPanel') => HighlightLinesCalls = 1
       /\ selectionChangeListener' <= 1
       /\ documentChangeListener' <= 1
       /\ fileChangeListener' <= 1]_vars

\* C35 (as claimed): a step in which the extension applies a result of the webview to
\* the editor of the analyzed file is taken while the panel shows the graph of that
\* file.
C35_ResultAppliedToItsFile ==
    [][(HighlightLinesStep /\ currentPanel' /\ decorations' # decorations) =>
          panelFile = analyzedFileUri]_vars

\* C36 (as claimed): the graph displayed last was loaded from the lines.csv and the
\* edges_translated.csv that the run for its own file wrote.
C36_RunsReadTheirOwnExport ==
    displayed.graph # NoFile =>
        /\ displayed.lines = displayed.graph
        /\ displayed.translated = displayed.graph

\* C32: every call of highlightLines sets isUpdatingHighlights and schedules a reset;
\* no query is sent to the webview in a step that starts with the flag set; and
\* whenever the flag is set it is eventually reset.
C32_SuppressionWindow ==
    /\ [][HighlightLinesStep => (isUpdatingHighlights' /\ HighlightLinesCalls >= 1)]_vars
    /\ [][isUpdatingHighlights => Len(toWebview') <= Len(toWebview)]_vars
    /\ (isUpdatingHighlights ~> ~isUpdatingHighlights)

\* After the report for line 1 was applied the cursor moved to line 2 while the flag
\* was set: no query was sent, vertex 1 is still the selected one.
C32_Witness ==
    /\ isUpdatingHighlights
    /\ toWebview = <<>>
    /\ toExtension = <<>>
    /\ lastTrigger = 2
    /\ lastReport.lineNumber = 1
    /\ selectedNode = 1
    /\ decorations.selected = {1}

\* C33 (as claimed): while the reset of a call of highlightLines is still to come,
\* isUpdatingHighlights is set.
C33_FlagSetWhileDelayRuns == timers > 0 => isUpdatingHighlights

====
